---------------------------- MODULE Spec2Model ----------------------------
(***************************************************************************)
(* routerbolt: a compiler from a small structured assembly language to the *)
(* Mindustry logic instruction set, and the reference emulator used to     *)
(* validate its output.                                                    *)
(*                                                                         *)
(* The model follows the pipeline of the crate:                            *)
(*   parser::parse   pass 1 (preparse_line) and pass 2 (parse_line)        *)
(*   codegen::generate                                                     *)
(*   Emulator::new / Emulator::run                                         *)
(*                                                                         *)
(* Text is modelled after clean_line/lex_line: a source line is the        *)
(* sequence of its whitespace separated tokens.  A token is a record that  *)
(* keeps what the code inspects of its text: whether it starts with "*"    *)
(* (a stack variable), ends with ":" (a label line), starts with "//" (a   *)
(* comment) or parses as usize (a numeric literal, kept by value).         *)
(***************************************************************************)
EXTENDS Integers, Sequences, FiniteSets, TLC

(***************************************************************************)
(* Tokens.                                                                 *)
(***************************************************************************)
W(text) == [t |-> "w", s |-> text, n |-> 0]

N(value) == [t |-> "n", s |-> "", n |-> value]

SV(name) == [t |-> "*", s |-> name, n |-> 0]

LBL(name) == [t |-> ":", s |-> name, n |-> 0]

\* A quoted string: its characters between the quotes, "c" for one that is
\* printed as it is and "\\n" for the escape of a newline, kept in n as the
\* digits 1 and 2 of a number in base 3
RECURSIVE QuotedCode(_)
QuotedCode(items) ==
    IF items = << >> THEN 0
    ELSE (IF items[1] = "\\n" THEN 2 ELSE 1) + 3 * QuotedCode(SubSeq(items, 2, Len(items)))

Quoted(items) == [t |-> "q", s |-> "", n |-> QuotedCode(items)]

RECURSIVE QuotedItems(_)
QuotedItems(code) ==
    IF code = 0 THEN << >>
    ELSE << IF code % 3 = 2 THEN "\\n" ELSE "c" >> \o QuotedItems(code \div 3)

CMT(text) == [t |-> "/", s |-> text, n |-> 0]

\* format!("MF_stack[{}]", index)
StackSlot(index) == [t |-> "w", s |-> "MF_stack[]", n |-> index]

\* format!("MF_ret{}", j)
RetSlot(j) == [t |-> "w", s |-> "MF_ret", n |-> j]

IsStackVarTok(tok) == tok.t = "*"

IsKeyword(tok, text) == tok.t = "w" /\ tok.s = text /\ tok.n = 0

(***************************************************************************)
(* Option<T>: None is the empty sequence, Some(v) the one-element one.     *)
(***************************************************************************)
None == << >>

Some(v) == << v >>

IsSome(o) == Len(o) = 1

IsNone(o) == Len(o) = 0

Unwrap(o) == o[1]

\* The empty HashMap.
EmptyMap == [x \in {} |-> 0]

MapInsert(m, key, v) == [x \in (DOMAIN m) \cup {key} |-> IF x = key THEN v ELSE m[x]]

MapRemove(m, key) == [x \in (DOMAIN m) \ {key} |-> m[x]]

Last(seq) == seq[Len(seq)]

Front(seq) == SubSeq(seq, 1, Len(seq) - 1)

Tail1(seq) == SubSeq(seq, 2, Len(seq))

(***************************************************************************)
(* Results of fallible operations: Ok carries a value, Bail an error       *)
(* (anyhow::bail!), Panic an abort (unwrap on None, index of a missing     *)
(* key, a failed assert!).                                                 *)
(***************************************************************************)
Ok(v) == [st |-> "ok", v |-> v, msg |-> "", named |-> << >>]

Bail(msg) == [st |-> "err", v |-> << >>, msg |-> msg, named |-> << >>]

Panic(msg) == [st |-> "panic", v |-> << >>, msg |-> msg, named |-> << >>]

\* bail! with a format string: msg is the text around the holes and named
\* the values that fill them, as tokens
BailNaming(msg, named) == [st |-> "err", v |-> << >>, msg |-> msg, named |-> named]

\* Result::with_context with a format string: the values of the context
\* come before those of the error it wraps
with_context(r, named) == IF r.st = "err" THEN [r EXCEPT !.named = named \o @] ELSE r

IsOk(r) == r.st = "ok"

(***************************************************************************)
(* Terms and conditions (types/mod.rs, types/condition.rs).                *)
(***************************************************************************)
\* MindustryTerm::accumulator / stack_sz / stack_tmp / zero
Accumulator == W("MF_acc")

StackSz == W("MF_stack_sz")

StackTmp == W("MF_stack_tmp")

Zero == N(0)

Counter == W("@counter")

\* Condition::always(): `always x false`
ConditionAlways == [cond |-> W("always"), arg1 |-> W("x"), arg2 |-> W("false")]

\* Condition::never(): `equal 0 1`
ConditionNever == [cond |-> W("equal"), arg1 |-> N(0), arg2 |-> N(1)]

(***************************************************************************)
(* code_size of every IR op (impl Operation for ...::code_size).           *)
(* backend is "Internal" or "External".                                    *)
(***************************************************************************)
CallProcOp_code_size(backend) == IF backend = "Internal" THEN 5 ELSE 4

RetProcOp_code_size(backend) == IF backend = "Internal" THEN 5 ELSE 2

PushOp_code_size(backend) == IF backend = "Internal" THEN 3 ELSE 2

PopOp_code_size(backend) == IF backend = "Internal" THEN 4 ELSE 2

\* depth.parse::<usize>() is Ok exactly for a numeric token
PeekOp_code_size(op, backend) ==
    IF backend = "Internal"
    THEN (IF op.depth.t = "n" THEN 4 ELSE 5)
    ELSE (IF op.depth.t = "n" THEN 2 ELSE 3)

PokeOp_code_size(op, backend) ==
    IF backend = "Internal"
    THEN (IF op.depth.t = "n" THEN 4 ELSE 5)
    ELSE (IF op.depth.t = "n" THEN 2 ELSE 3)

GetStackOp_code_size(op, backend) ==
    IF backend = "Internal"
    THEN (IF op.global # Accumulator THEN 5 ELSE 4)
    ELSE 2

SetStackOp_code_size(op, backend) ==
    IF backend = "Internal"
    THEN (IF op.global # Accumulator THEN 5 ELSE 4)
    ELSE 2

IfOp_code_size == 2

ElseOp_code_size == 1

LoopEndOp_SIZE == 1

WhileOp_SIZE == 1

DoWhileOp_SIZE == 0

InfiniteLoopOp_SIZE == 0

BreakOp_SIZE == 1

ContinueOp_SIZE == 1

\* impl Operation for IrOp :: code_size
code_size(op, backend) ==
    CASE op.k = "CallProc" -> CallProcOp_code_size(backend)
      [] op.k = "Push" -> PushOp_code_size(backend)
      [] op.k = "Pop" -> PopOp_code_size(backend)
      [] op.k = "Peek" -> PeekOp_code_size(op, backend)
      [] op.k = "Poke" -> PokeOp_code_size(op, backend)
      [] op.k = "GetStack" -> GetStackOp_code_size(op, backend)
      [] op.k = "SetStack" -> SetStackOp_code_size(op, backend)
      [] op.k = "Set" -> 1
      [] op.k = "Math" -> 1
      [] op.k = "RetProc" -> RetProcOp_code_size(backend)
      [] op.k = "Label" -> 0
      [] op.k = "MindustryCommand" -> 1
      [] op.k = "Jump" -> 1
      [] op.k = "If" -> IfOp_code_size
      [] op.k = "Else" -> ElseOp_code_size
      [] op.k = "While" -> WhileOp_SIZE
      [] op.k = "DoWhile" -> 0
      [] op.k = "InfiniteLoop" -> 0
      [] op.k = "LoopEnd" -> LoopEndOp_SIZE
      [] op.k = "Break" -> BreakOp_SIZE
      [] op.k = "Continue" -> ContinueOp_SIZE
      [] op.k = "Function" -> op.size
      [] op.k = "Return" -> op.size
      [] op.k = "Call" -> op.total_size
      [] op.k = "Let" -> 0

\* IrSequence::code_size: the sum over the ops of the sequence
RECURSIVE IrSequence_code_size(_, _)
IrSequence_code_size(seq, backend) ==
    IF seq = << >> THEN 0
    ELSE code_size(seq[1], backend) + IrSequence_code_size(Tail1(seq), backend)

(***************************************************************************)
(* ir/function.rs: FunctionOp, ReturnOp::new, CallOp::new.                 *)
(***************************************************************************)
MapLen(m) == Cardinality(DOMAIN m)

\* The arg loop of FunctionOp::declare: every arg is a stack variable and
\* gets the next frame index; a repeated name is an error.
RECURSIVE declare_args(_, _, _)
declare_args(arg_names, j, locals) ==
    IF j > Len(arg_names) THEN Ok(locals)
    ELSE IF ~IsStackVarTok(arg_names[j]) THEN Bail("function argument name")
    ELSE IF arg_names[j] \in DOMAIN locals THEN Bail("function argument duplicate name")
    ELSE declare_args(arg_names, j + 1, MapInsert(locals, arg_names[j], MapLen(locals)))

\* The returns loop of FunctionOp::declare: only duplicates are rejected.
HasDuplicate(seq) == \E i, j \in 1..Len(seq) : i < j /\ seq[i] = seq[j]

FunctionOp_declare(name, arg_names, return_names) ==
    LET locals == declare_args(arg_names, 1, EmptyMap) IN
    IF ~IsOk(locals) THEN locals
    ELSE IF HasDuplicate(return_names) THEN Bail("function return value duplicate name")
    ELSE Ok([name |-> name, args |-> arg_names, returns |-> return_names,
             locals |-> locals.v, address |-> None])

\* A depth that counts the top of the stack as depth 0
FunctionOp_stack_var_depth_from_zero(function, name) ==
    IF name \notin DOMAIN function.locals
    THEN Bail("innermost function definition does not have let variable")
    ELSE Ok(MapLen(function.locals) - function.locals[name] - 1)

\* FunctionOp::stack_var_depth: locals.len() - offset
FunctionOp_stack_var_depth(function, name) ==
    IF name \notin DOMAIN function.locals
    THEN Bail("innermost function definition does not have let variable")
    ELSE Ok(MapLen(function.locals) - function.locals[name])

\* FunctionOp::start_parse: address.replace(address); assert!(set.is_none())
FunctionOp_start_parse(function, address) ==
    IF IsSome(function.address) THEN Panic("assert set.is_none()")
    ELSE Ok([function EXCEPT !.address = Some(address)])

\* The size a returned value adds to ReturnOp.size
ReturnOp_value_size(value, backend) ==
    IF IsStackVarTok(value)
    THEN (IF backend = "Internal" THEN 5 ELSE 2)
    ELSE 1

RECURSIVE ReturnOp_values_size(_, _)
ReturnOp_values_size(values, backend) ==
    IF values = << >> THEN 0
    ELSE ReturnOp_value_size(values[1], backend)
         + ReturnOp_values_size(Tail1(values), backend)

\* A ReturnOp::new that takes any number of values
ReturnOp_new_of_any_count(function, value_names, backend) ==
    Ok([k |-> "Return", function |-> function.name, values |-> value_names,
        size |-> ReturnOp_values_size(value_names, backend) + 1
                 + (IF backend = "Internal" THEN 4 ELSE 1)])

\* ReturnOp::new
ReturnOp_new(function, value_names, backend) ==
    IF Len(value_names) # Len(function.returns)
    THEN BailNaming("function specifies {} return values but return statement has {}",
                    << N(Len(function.returns)), N(Len(value_names)) >>)
    ELSE Ok([k |-> "Return", function |-> function.name, values |-> value_names,
             size |-> ReturnOp_values_size(value_names, backend) + 1
                      + (IF backend = "Internal" THEN 4 ELSE 1)])

\* An argument size that counts every argument as a literal or a global
CallOp_arg_size_of_a_global(arg, backend) == IF backend = "Internal" THEN 4 ELSE 2

\* The size one argument adds to CallOp.before_call_size
CallOp_arg_size(arg, backend) ==
    IF backend = "Internal"
    THEN (IF IsStackVarTok(arg) THEN 7 ELSE 4)
    ELSE (IF IsStackVarTok(arg) THEN 4 ELSE 2)

\* The size one return binding adds to CallOp.total_size
CallOp_return_size(arg, backend) ==
    IF backend = "Internal"
    THEN (IF IsStackVarTok(arg) THEN 5 ELSE 1)
    ELSE (IF IsStackVarTok(arg) THEN 2 ELSE 1)

RECURSIVE CallOp_args_size(_, _)
CallOp_args_size(args, backend) ==
    IF args = << >> THEN 0
    ELSE CallOp_arg_size(args[1], backend) + CallOp_args_size(Tail1(args), backend)

RECURSIVE CallOp_returns_size(_, _)
CallOp_returns_size(returns, backend) ==
    IF returns = << >> THEN 0
    ELSE CallOp_return_size(returns[1], backend)
         + CallOp_returns_size(Tail1(returns), backend)

\* A before_call_size that leaves out the line reserving the callee's locals
CallOp_before_call_size_no_reserve(args, target_function_num_locals, backend) ==
    (IF backend = "Internal" THEN 4 ELSE 3) + CallOp_args_size(args, backend) + 1

\* before_call_size as CallOp::new computes it
CallOp_before_call_size(args, target_function_num_locals, backend) ==
    (IF backend = "Internal" THEN 4 ELSE 3)
    + CallOp_args_size(args, backend)
    + (IF target_function_num_locals # Len(args) THEN 1 ELSE 0)
    + 1

\* CallOp::new
CallOp_new(args, returns, target_function_num_locals, target_function, call_site_function, backend) ==
    LET before == CallOp_before_call_size(args, target_function_num_locals, backend) IN
    [k |-> "Call", call_site_function |-> call_site_function,
     target_function |-> target_function, args |-> args, returns |-> returns,
     before_call_size |-> before,
     total_size |-> before + CallOp_returns_size(returns, backend)]

(***************************************************************************)
(* ir/if_op.rs and ir/loops.rs: constructors and forward resolution.       *)
(***************************************************************************)
\* IfOp::new
IfOp_new(condition) == [k |-> "If", condition |-> condition, end |-> None]

\* A resolve_forward that leaves the if as it is
IfOp_resolve_forward_of_nothing(if_op, end) == Ok(if_op)

\* A resolve_forward that ends the if one line early
IfOp_resolve_forward_early(if_op, end) ==
    IF IsSome(if_op.end) THEN Panic("assert set.is_none()")
    ELSE Ok([if_op EXCEPT !.end = Some(end - 1)])

\* IfOp::resolve_forward: end.replace(end); assert!(set.is_none())
IfOp_resolve_forward(if_op, end) ==
    IF IsSome(if_op.end) THEN Panic("assert set.is_none()")
    ELSE Ok([if_op EXCEPT !.end = Some(end)])

\* ElseOp::declare
ElseOp_declare == [k |-> "Else", end |-> None]

LoopEndOp(body_start, condition) ==
    [k |-> "LoopEnd", body_start |-> body_start, condition |-> condition]

\* WhileOp::new
WhileOp_new(address, end_sequence, condition) ==
    [k |-> "While", body_start |-> address + WhileOp_SIZE, end_sequence |-> end_sequence,
     forward |-> None, condition |-> condition]

\* A resolve_forward that leaves the while as it is
WhileOp_resolve_forward_of_nothing(while_op, body_end, backend) ==
    Ok([op |-> while_op, seq |-> << >>])

\* WhileOp::resolve_forward: returns the op and the end sequence to append
WhileOp_resolve_forward(while_op, body_end, backend) ==
    LET end_sequence == Append(while_op.end_sequence,
                               LoopEndOp(while_op.body_start, while_op.condition))
        cond_end == body_end + IrSequence_code_size(end_sequence, backend)
    IN  IF IsSome(while_op.forward) THEN Panic("assert set.is_none()")
        ELSE Ok([op |-> [while_op EXCEPT !.end_sequence = end_sequence,
                                         !.forward = Some(<<body_end, cond_end>>)],
                 seq |-> end_sequence])

\* DoWhileOp::new
DoWhileOp_new(address) ==
    [k |-> "DoWhile", body_start |-> address + DoWhileOp_SIZE, forward |-> None]

\* DoWhileOp::resolve_forward
DoWhileOp_resolve_forward(do_while_op, body_end, end_seq, condition, backend) ==
    LET end_sequence == Append(end_seq, LoopEndOp(do_while_op.body_start, condition))
        end == body_end + IrSequence_code_size(end_sequence, backend)
    IN  IF IsSome(do_while_op.forward) THEN Panic("assert set.is_none()")
        ELSE Ok([op |-> [do_while_op EXCEPT !.forward = Some(<<body_end, end>>)],
                 seq |-> end_sequence])

\* InfiniteLoopOp::new
InfiniteLoopOp_new(address) ==
    [k |-> "InfiniteLoop", body_start |-> address + InfiniteLoopOp_SIZE, end |-> None]

\* InfiniteLoopOp::resolve_forward
InfiniteLoopOp_resolve_forward(loop_op, address) ==
    IF IsSome(loop_op.end) THEN Panic("assert set.is_none()")
    ELSE Ok([op |-> [loop_op EXCEPT !.end = Some(address + LoopEndOp_SIZE)],
             seq |-> << LoopEndOp(loop_op.body_start, ConditionAlways) >>])

\* An end_address that is the address of the condition check
Loop_end_address_at_condition(op) ==
    IF op.k = "InfiniteLoop" THEN Ok(op.body_start)
    ELSE (IF IsSome(op.forward) THEN Ok(Unwrap(op.forward)[1])
          ELSE Bail("Internal error: Forward reference"))

\* LoopTrait::end_address of the three loop ops
Loop_end_address(op) ==
    IF op.k = "InfiniteLoop"
    THEN (IF IsSome(op.end) THEN Ok(Unwrap(op.end)) ELSE Bail("Internal error: Forward reference"))
    ELSE (IF IsSome(op.forward) THEN Ok(Unwrap(op.forward)[2])
          ELSE Bail("Internal error: Forward reference"))

\* LoopTrait::condition_address of the three loop ops
Loop_condition_address(op) ==
    IF op.k = "InfiniteLoop" THEN Ok(op.body_start)
    ELSE (IF IsSome(op.forward) THEN Ok(Unwrap(op.forward)[1])
          ELSE Bail("Internal error: Forward reference"))

(***************************************************************************)
(* ir/intermediate_representation.rs: reading and writing operands that    *)
(* may live on the stack.  `function` is an Option<FunctionName>.          *)
(***************************************************************************)
GetStackOp(global, stack, function) ==
    [k |-> "GetStack", global |-> global, stack |-> stack, function |-> function]

SetStackOp(global, stack, function) ==
    [k |-> "SetStack", global |-> global, stack |-> stack, function |-> function]

SetOp(dest, source) == [k |-> "Set", dest |-> dest, source |-> source]

StackVarOutsideFunction ==
    Bail("Stack variables (start with *) may not be used outside a fuction")

ir_copy_arg(dest, source, function) ==
    CASE ~IsStackVarTok(source) /\ ~IsStackVarTok(dest) ->
            Ok(<< SetOp(dest, source) >>)
      [] IsStackVarTok(source) /\ ~IsStackVarTok(dest) /\ IsSome(function) ->
            Ok(<< GetStackOp(dest, source, Unwrap(function)) >>)
      [] ~IsStackVarTok(source) /\ IsStackVarTok(dest) /\ IsSome(function) ->
            Ok(<< SetStackOp(source, dest, Unwrap(function)) >>)
      [] IsStackVarTok(source) /\ IsStackVarTok(dest) /\ IsSome(function) ->
            Ok(<< GetStackOp(Accumulator, source, Unwrap(function)),
                  SetStackOp(Accumulator, dest, Unwrap(function)) >>)
      [] OTHER -> StackVarOutsideFunction

ir_write_one(dest, function) ==
    CASE ~IsStackVarTok(dest) -> Ok([dest |-> dest, write |-> << >>])
      [] IsStackVarTok(dest) /\ IsSome(function) ->
            Ok([dest |-> Accumulator,
                write |-> << SetStackOp(Accumulator, dest, Unwrap(function)) >>])
      [] OTHER -> StackVarOutsideFunction

ir_read_one_arg(arg, function) ==
    CASE ~IsStackVarTok(arg) -> Ok([seq |-> << >>, arg1 |-> arg, arg2 |-> arg])
      [] IsStackVarTok(arg) /\ IsSome(function) ->
            Ok([seq |-> << GetStackOp(Accumulator, arg, Unwrap(function)) >>,
                arg1 |-> Accumulator, arg2 |-> Accumulator])
      [] OTHER -> StackVarOutsideFunction

\* An ir_read_two_args that reads the second of two stack variables into
\* the accumulator before it reads the first
ir_read_two_args_accumulator_first(arg1, arg2, function) ==
    IF arg1 = arg2 THEN ir_read_one_arg(arg1, function)
    ELSE IF IsStackVarTok(arg1) /\ IsStackVarTok(arg2) /\ IsSome(function)
    THEN Ok([seq |-> << GetStackOp(Accumulator, arg2, Unwrap(function)),
                        GetStackOp(StackTmp, arg1, Unwrap(function)) >>,
             arg1 |-> StackTmp, arg2 |-> Accumulator])
    ELSE IF IsStackVarTok(arg1) /\ IsSome(function)
    THEN Ok([seq |-> << GetStackOp(Accumulator, arg1, Unwrap(function)) >>,
             arg1 |-> Accumulator, arg2 |-> arg2])
    ELSE IF IsStackVarTok(arg2) /\ IsSome(function)
    THEN Ok([seq |-> << GetStackOp(Accumulator, arg2, Unwrap(function)) >>,
             arg1 |-> arg1, arg2 |-> Accumulator])
    ELSE IF IsStackVarTok(arg1) \/ IsStackVarTok(arg2) THEN StackVarOutsideFunction
    ELSE Ok([seq |-> << >>, arg1 |-> arg1, arg2 |-> arg2])

\* An ir_read_two_args that takes every term for a term of the target
ir_read_two_args_of_any_term(arg1, arg2, function) ==
    Ok([seq |-> << >>, arg1 |-> arg1, arg2 |-> arg2])

ir_read_two_args(arg1, arg2, function) ==
    IF arg1 = arg2 THEN ir_read_one_arg(arg1, function)
    ELSE
    CASE ~IsStackVarTok(arg1) /\ ~IsStackVarTok(arg2) ->
            Ok([seq |-> << >>, arg1 |-> arg1, arg2 |-> arg2])
      [] IsStackVarTok(arg1) /\ ~IsStackVarTok(arg2) /\ IsSome(function) ->
            Ok([seq |-> << GetStackOp(Accumulator, arg1, Unwrap(function)) >>,
                arg1 |-> Accumulator, arg2 |-> arg2])
      [] ~IsStackVarTok(arg1) /\ IsStackVarTok(arg2) /\ IsSome(function) ->
            Ok([seq |-> << GetStackOp(Accumulator, arg2, Unwrap(function)) >>,
                arg1 |-> arg1, arg2 |-> Accumulator])
      [] IsStackVarTok(arg1) /\ IsStackVarTok(arg2) /\ IsSome(function) ->
            Ok([seq |-> << GetStackOp(StackTmp, arg1, Unwrap(function)),
                           GetStackOp(Accumulator, arg2, Unwrap(function)) >>,
                arg1 |-> StackTmp, arg2 |-> Accumulator])
      [] OTHER -> StackVarOutsideFunction

ir_read_two_write_one(dest, arg1, arg2, function) ==
    LET read == ir_read_two_args(arg1, arg2, function)
        write == ir_write_one(dest, function)
    IN  IF ~IsOk(read) THEN read
        ELSE IF ~IsOk(write) THEN write
        ELSE Ok([read |-> read.v.seq, dest |-> write.v.dest, arg1 |-> read.v.arg1,
                 arg2 |-> read.v.arg2, write |-> write.v.write])

(***************************************************************************)
(* parser.rs: free functions.                                              *)
(***************************************************************************)
\* A parse_condition without the special case of `always` and `never`
parse_condition_of_any_word(function, tok) ==
    IF Len(tok) = 0 THEN Panic("index out of bounds")
    ELSE IF Len(tok) = 1 /\ IsKeyword(tok[1], "always")
    THEN Ok([seq |-> << >>, condition |-> ConditionAlways])
    ELSE IF Len(tok) = 1 /\ IsKeyword(tok[1], "never")
    THEN Ok([seq |-> << >>, condition |-> ConditionNever])
    ELSE IF Len(tok) # 3 THEN Bail("condition form is cond a b, always, or never")
    ELSE LET read == ir_read_two_args(tok[2], tok[3], function) IN
         IF ~IsOk(read) THEN read
         ELSE Ok([seq |-> read.v.seq,
                  condition |-> [cond |-> tok[1], arg1 |-> read.v.arg1,
                                 arg2 |-> read.v.arg2]])

\* parse_condition(function, tok); tok[0] of an empty slice panics
parse_condition(function, tok) ==
    IF Len(tok) = 0 THEN Panic("index out of bounds")
    ELSE IF IsKeyword(tok[1], "always") THEN Ok([seq |-> << >>, condition |-> ConditionAlways])
    ELSE IF IsKeyword(tok[1], "never") THEN Ok([seq |-> << >>, condition |-> ConditionNever])
    ELSE IF Len(tok) # 3 THEN Bail("condition form is cond a b, always, or never")
    ELSE LET read == ir_read_two_args(tok[2], tok[3], function) IN
         IF ~IsOk(read) THEN read
         ELSE Ok([seq |-> read.v.seq,
                  condition |-> [cond |-> tok[1], arg1 |-> read.v.arg1,
                                 arg2 |-> read.v.arg2]])

IsArrow(tok) == IsKeyword(tok, "->")

ArrowPositions(tokens) == {i \in 1..Len(tokens) : IsArrow(tokens[i])}

\* parse_arrow: split on "->", which may appear at most once
parse_arrow(tokens) ==
    LET arrows == ArrowPositions(tokens) IN
    IF Cardinality(arrows) > 1 THEN Bail("-> may appear at most once")
    ELSE IF arrows = {} THEN Ok([args |-> tokens, returns |-> << >>])
    ELSE LET i == CHOOSE a \in arrows : TRUE IN
         Ok([args |-> SubSeq(tokens, 1, i - 1),
             returns |-> SubSeq(tokens, i + 1, Len(tokens))])

ScopeKinds == {"InfiniteLoop", "DoWhile", "While", "If", "Else"}

LoopKinds == {"InfiniteLoop", "DoWhile", "While"}

\* find_enclosing_function_internal: walk the scope stack from the top
RECURSIVE find_enclosing_function_internal(_, _)
find_enclosing_function_internal(scope_stack, ops) ==
    IF scope_stack = << >> THEN Ok(None)
    ELSE LET op == ops[Last(scope_stack) + 1] IN
         IF op.k \in ScopeKinds
         THEN find_enclosing_function_internal(Front(scope_stack), ops)
         ELSE IF op.k = "Function" THEN Ok(Some(op.name))
         ELSE Bail("Internal error: unexpected op on scope stack")

find_enclosing_function(c) == find_enclosing_function_internal(c.scope_stack, c.ops)

\* A search for the enclosing loop that goes on beyond the function
RECURSIVE find_enclosing_loop_index_beyond_function(_, _)
find_enclosing_loop_index_beyond_function(scope_stack, ops) ==
    IF scope_stack = << >> THEN Ok(None)
    ELSE LET op == ops[Last(scope_stack) + 1] IN
         IF op.k \in LoopKinds THEN Ok(Some(Last(scope_stack)))
         ELSE IF op.k \in {"If", "Else", "Function"}
         THEN find_enclosing_loop_index_beyond_function(Front(scope_stack), ops)
         ELSE Bail("Internal error: unexpected op on scope stack")

RECURSIVE find_enclosing_loop_index_internal(_, _)
find_enclosing_loop_index_internal(scope_stack, ops) ==
    IF scope_stack = << >> THEN Ok(None)
    ELSE LET op == ops[Last(scope_stack) + 1] IN
         IF op.k \in LoopKinds THEN Ok(Some(Last(scope_stack)))
         ELSE IF op.k \in {"If", "Else"}
         THEN find_enclosing_loop_index_internal(Front(scope_stack), ops)
         ELSE IF op.k = "Function" THEN Ok(None)
         ELSE Bail("Internal error: unexpected op on scope stack")

find_enclosing_loop_index(c) == find_enclosing_loop_index_internal(c.scope_stack, c.ops)

(***************************************************************************)
(* parser.rs, pass 1.  The pass works on                                   *)
(*   p = [functions, stack_config, preparse_fn_stack]                      *)
(* where stack_config is an Option<StackConfig> and preparse_fn_stack a    *)
(* sequence of Option<FunctionName>.                                       *)
(***************************************************************************)
StackConfigInternal(size) == [k |-> "Internal", size |-> size, cell |-> W("")]

StackConfigExternal(cell) == [k |-> "External", size |-> 0, cell |-> cell]

preparse_stack_config(p, tok) ==
    IF Len(tok) # 2 \/ (~IsKeyword(tok[1], "size") /\ ~IsKeyword(tok[1], "cell"))
    THEN Bail("form is stack_config [ size <stack_size> | cell <cell_name> ]")
    ELSE IF IsSome(p.stack_config) THEN Bail("stack config set for second time here")
    ELSE IF IsKeyword(tok[1], "size")
    THEN (IF tok[2].t # "n" THEN Bail("stack size must be a non-negative integer")
          ELSE Ok([p EXCEPT !.stack_config = Some(StackConfigInternal(tok[2].n))]))
    ELSE Ok([p EXCEPT !.stack_config = Some(StackConfigExternal(tok[2]))])

preparse_function(p, tok) ==
    IF Len(tok) < 2 \/ ~IsKeyword(Last(tok), "{")
    THEN Bail("form is fn name [arg1 [arg2...]] [-> [return1 [return2...]]] {")
    ELSE LET name == tok[1]
             arrow == parse_arrow(SubSeq(tok, 2, Len(tok) - 1))
             func == FunctionOp_declare(name, arrow.v.args, arrow.v.returns)
         IN  IF ~IsOk(arrow) THEN arrow
             ELSE IF ~IsOk(func) THEN func
             ELSE IF name \in DOMAIN p.functions
             THEN Bail("function is defined a second time here")
             ELSE Ok([p EXCEPT !.functions = MapInsert(p.functions, name, func.v),
                               !.preparse_fn_stack = Append(p.preparse_fn_stack, Some(name))])

\* The outermost Some(f) of preparse_fn_stack
RECURSIVE outermost_function(_)
outermost_function(fn_stack) ==
    IF fn_stack = << >> THEN None
    ELSE IF IsSome(fn_stack[1]) THEN fn_stack[1]
    ELSE outermost_function(Tail1(fn_stack))

\* The innermost Some(f) of preparse_fn_stack, as the loop of preparse_let finds it
RECURSIVE innermost_function(_)
innermost_function(fn_stack) ==
    IF fn_stack = << >> THEN None
    ELSE IF IsSome(Last(fn_stack)) THEN Last(fn_stack)
    ELSE innermost_function(Front(fn_stack))

preparse_let(p, tok) ==
    IF Len(tok) # 1 THEN Bail("form is let *stack_var_name")
    ELSE LET function_name == innermost_function(p.preparse_fn_stack) IN
         IF IsNone(function_name) THEN Bail("let may only be used within a function")
         ELSE IF ~IsStackVarTok(tok[1]) THEN Bail("let binding is not a stack var")
         ELSE LET f == Unwrap(function_name)
                  function == p.functions[f]
              IN  IF tok[1] \in DOMAIN function.locals
                  THEN Bail("stack var is defined a second time here")
                  ELSE Ok([p EXCEPT !.functions[f].locals =
                              MapInsert(function.locals, tok[1], MapLen(function.locals))])

preparse_line(p, tok) ==
    IF tok = << >> THEN Ok(p)
    ELSE IF IsKeyword(tok[1], "fn") THEN preparse_function(p, Tail1(tok))
    ELSE IF IsKeyword(tok[1], "let") THEN preparse_let(p, Tail1(tok))
    ELSE IF IsKeyword(tok[1], "stack_config") THEN preparse_stack_config(p, Tail1(tok))
    ELSE IF IsKeyword(tok[1], "}") /\ IsKeyword(Last(tok), "{") THEN Ok(p)
    ELSE IF IsKeyword(tok[1], "}")
    THEN (IF p.preparse_fn_stack = << >> THEN Bail("missing opening {")
          ELSE Ok([p EXCEPT !.preparse_fn_stack = Front(p.preparse_fn_stack)]))
    ELSE IF IsKeyword(Last(tok), "{")
    THEN Ok([p EXCEPT !.preparse_fn_stack = Append(p.preparse_fn_stack, None)])
    ELSE Ok(p)

(***************************************************************************)
(* parser.rs, pass 2.  c is the ParserContext                              *)
(*   [ops, backend, instruction_count, scope_stack, functions, labels,     *)
(*    has_stack]                                                           *)
(* and every parse_* yields Ok([c |-> context after, seq |-> IrSequence]). *)
(* Indices into ops and addresses are zero based as in the source.         *)
(***************************************************************************)
Parsed(c, seq) == Ok([c |-> c, seq |-> seq])

\* A require_stack that asks for nothing
require_stack_of_no_one(c) == Ok(c)

require_stack(c) ==
    IF ~c.has_stack THEN Bail("This function requires that a stack be configured")
    ELSE Ok(c)

parse_callproc(c, tok) ==
    IF ~IsOk(require_stack(c)) THEN require_stack(c)
    ELSE IF Len(tok) # 1 THEN Bail("form is callproc label")
    ELSE Parsed(c, << [k |-> "CallProc", target |-> tok[1]] >>)

parse_ret(c, tok) ==
    IF ~IsOk(require_stack(c)) THEN require_stack(c)
    ELSE IF tok # << >> THEN Bail("form is ret")
    ELSE Parsed(c, << [k |-> "RetProc"] >>)

\* A parse_label that takes a second declaration of a label for the label
parse_label_declared_again(c, name) ==
    Parsed([c EXCEPT !.labels = MapInsert(c.labels, name, c.instruction_count)],
           << [k |-> "Label", target |-> name] >>)

\* A parse_label that records the address after the next line
parse_label_of_next_line(c, name) ==
    IF name \in DOMAIN c.labels THEN Bail("label is defined a second time here")
    ELSE Parsed([c EXCEPT !.labels = MapInsert(c.labels, name, c.instruction_count + 1)],
                << [k |-> "Label", target |-> name] >>)

\* name is the token without its trailing ":"
\* A parse_label that records the number of ops so far, not their size
parse_label_op_count(c, name) ==
    IF name \in DOMAIN c.labels THEN Bail("label is defined a second time here")
    ELSE Parsed([c EXCEPT !.labels = MapInsert(c.labels, name, Len(c.ops))],
                << [k |-> "Label", target |-> name] >>)

parse_label(c, name) ==
    IF name \in DOMAIN c.labels THEN Bail("label is defined a second time here")
    ELSE Parsed([c EXCEPT !.labels = MapInsert(c.labels, name, c.instruction_count)],
                << [k |-> "Label", target |-> name] >>)

parse_push(c, tok) ==
    IF ~IsOk(require_stack(c)) THEN require_stack(c)
    ELSE IF tok # << >> THEN Bail("form is push")
    ELSE Parsed(c, << [k |-> "Push"] >>)

parse_pop(c, tok) ==
    IF ~IsOk(require_stack(c)) THEN require_stack(c)
    ELSE IF tok # << >> THEN Bail("form is pop")
    ELSE Parsed(c, << [k |-> "Pop"] >>)

parse_peek(c, tok) ==
    IF ~IsOk(require_stack(c)) THEN require_stack(c)
    ELSE IF Len(tok) = 0 THEN Parsed(c, << [k |-> "Peek", depth |-> Zero] >>)
    ELSE IF Len(tok) = 1
    THEN (IF IsStackVarTok(tok[1]) THEN Bail("peek depth")
          ELSE Parsed(c, << [k |-> "Peek", depth |-> tok[1]] >>))
    ELSE Bail("form is peek [depth]")

parse_poke(c, tok) ==
    IF ~IsOk(require_stack(c)) THEN require_stack(c)
    ELSE IF Len(tok) = 0 THEN Parsed(c, << [k |-> "Poke", depth |-> Zero] >>)
    ELSE IF Len(tok) = 1
    THEN (IF IsStackVarTok(tok[1]) THEN Bail("poke depth")
          ELSE Parsed(c, << [k |-> "Poke", depth |-> tok[1]] >>))
    ELSE Bail("form is poke [depth]")

\* ParserContext::parse_condition
parse_condition_in(c, tok) ==
    LET function == find_enclosing_function(c) IN
    IF ~IsOk(function) THEN function ELSE parse_condition(function.v, tok)

parse_jump(c, tok) ==
    IF Len(tok) < 2 THEN Bail("form is jump label condition")
    ELSE LET cond == parse_condition_in(c, Tail1(tok)) IN
         IF ~IsOk(cond) THEN cond
         ELSE Parsed(c, Append(cond.v.seq,
                               [k |-> "Jump", target |-> tok[1],
                                condition |-> cond.v.condition]))

parse_while(c, tok) ==
    IF tok = << >> \/ ~IsKeyword(Last(tok), "{") THEN Bail("form is while condition {")
    ELSE LET cond == parse_condition_in(c, Front(tok)) IN
         IF ~IsOk(cond) THEN cond
         ELSE Parsed([c EXCEPT !.scope_stack = Append(c.scope_stack, Len(c.ops))],
                     << WhileOp_new(c.instruction_count, cond.v.seq, cond.v.condition) >>)

parse_do(c, tok) ==
    IF Len(tok) # 1 \/ ~IsKeyword(tok[1], "{") THEN Bail("form is do {")
    ELSE Parsed([c EXCEPT !.scope_stack = Append(c.scope_stack, Len(c.ops))],
                << DoWhileOp_new(c.instruction_count) >>)

parse_loop(c, tok) ==
    IF Len(tok) # 1 \/ ~IsKeyword(tok[1], "{") THEN Bail("form is loop {")
    ELSE Parsed([c EXCEPT !.scope_stack = Append(c.scope_stack, Len(c.ops))],
                << InfiniteLoopOp_new(c.instruction_count) >>)

parse_break(c, tok) ==
    IF tok # << >> THEN Bail("form is break")
    ELSE LET index == find_enclosing_loop_index(c) IN
         IF ~IsOk(index) THEN index
         ELSE IF IsNone(index.v) THEN Bail("break not valid outside loop")
         ELSE Parsed(c, << [k |-> "Break", index |-> Unwrap(index.v)] >>)

parse_continue(c, tok) ==
    IF tok # << >> THEN Bail("form is continue")
    ELSE LET index == find_enclosing_loop_index(c) IN
         IF ~IsOk(index) THEN index
         ELSE IF IsNone(index.v) THEN Bail("continue not valid outside loop")
         ELSE Parsed(c, << [k |-> "Continue", index |-> Unwrap(index.v)] >>)

parse_if(c, tok) ==
    IF tok = << >> \/ ~IsKeyword(Last(tok), "{") THEN Bail("form is if condition {")
    ELSE LET cond == parse_condition_in(c, Front(tok)) IN
         IF ~IsOk(cond) THEN cond
         ELSE Parsed([c EXCEPT !.scope_stack =
                          Append(c.scope_stack, Len(cond.v.seq) + Len(c.ops))],
                     Append(cond.v.seq, IfOp_new(cond.v.condition)))

parse_function(c, tok) ==
    IF ~IsOk(require_stack(c)) THEN require_stack(c)
    ELSE IF tok = << >> THEN Panic("index out of bounds")
    ELSE IF tok[1] \notin DOMAIN c.functions THEN Panic("unwrap on None")
    ELSE LET name == tok[1]
             function == FunctionOp_start_parse(c.functions[name], c.instruction_count)
         IN  IF ~IsOk(function) THEN function
             ELSE Parsed([c EXCEPT !.functions[name] = function.v,
                                   !.scope_stack = Append(c.scope_stack, Len(c.ops))],
                         << [k |-> "Function", name |-> name, size |-> 0] >>)

parse_return(c, value_names) ==
    IF ~IsOk(require_stack(c)) THEN require_stack(c)
    ELSE LET function_name == find_enclosing_function(c) IN
         IF ~IsOk(function_name) THEN function_name
         ELSE IF IsNone(function_name.v)
         THEN Bail("return may not be used outside a function")
         ELSE LET statement == ReturnOp_new(c.functions[Unwrap(function_name.v)],
                                            value_names, c.backend)
              IN  IF ~IsOk(statement)
                  THEN with_context(statement, << Unwrap(function_name.v) >>)
                  ELSE Parsed(c, << statement.v >>)

\* function_name is the function the call site is in
parse_call_variable(c, name, function_name) ==
    IF ~IsOk(require_stack(c)) THEN require_stack(c)
    ELSE IF IsStackVarTok(name) /\ IsSome(function_name)
    THEN (IF name \in DOMAIN c.functions[Unwrap(function_name)].locals
          THEN Ok(name)
          ELSE Bail("function does not have stack variable"))
    ELSE IF IsStackVarTok(name)
    THEN Bail("is a stack variable and may only be used inside a function")
    ELSE Ok(name)

FirstBadCallVariable(c, names, function_name) ==
    {j \in 1..Len(names) : ~IsOk(parse_call_variable(c, names[j], function_name))}

parse_call(c, tok) ==
    IF ~IsOk(require_stack(c)) THEN require_stack(c)
    ELSE IF Len(tok) < 1 THEN Bail("form is call name [args] [-> return_values]")
    ELSE LET name == tok[1]
             arrow == parse_arrow(Tail1(tok))
             call_site_function == find_enclosing_function(c)
             args == arrow.v.args
             returns == arrow.v.returns
             function == c.functions[name]
         IN  IF ~IsOk(arrow) THEN arrow
             ELSE IF ~IsOk(call_site_function) THEN call_site_function
             ELSE IF FirstBadCallVariable(c, args, call_site_function.v) # {}
             THEN Bail("parameter")
             ELSE IF FirstBadCallVariable(c, returns, call_site_function.v) # {}
             THEN Bail("return binding")
             ELSE IF HasDuplicate(returns) THEN Bail("return binding is duplicated")
             ELSE IF name \notin DOMAIN c.functions
             THEN BailNaming("function definition for {} not found", << name >>)
             ELSE IF Len(function.args) # Len(args)
             THEN BailNaming("function {} takes {} args but called with {} values",
                             << name, N(Len(function.args)), N(Len(args)) >>)
             ELSE IF Len(function.returns) # Len(returns)
             THEN BailNaming("function {} returns {} values but being bound to {} bindings",
                             << name, N(Len(function.returns)), N(Len(returns)) >>)
             ELSE Parsed(c, << CallOp_new(args, returns, MapLen(function.locals), name,
                                          call_site_function.v, c.backend) >>)

parse_let(c, tok) ==
    IF ~IsOk(require_stack(c)) THEN require_stack(c)
    ELSE IF tok = << >> THEN Panic("index out of bounds")
    ELSE LET function_name == find_enclosing_function(c) IN
         IF ~IsOk(function_name) THEN function_name
         ELSE IF IsNone(function_name.v)
         THEN Bail("let may not be used outside a function")
         ELSE IF ~IsStackVarTok(tok[1]) THEN Panic("unwrap on Err")
         ELSE Parsed(c, << [k |-> "Let", name |-> tok[1],
                            pos |-> MapLen(c.functions[Unwrap(function_name.v)].locals)] >>)

MathOp(operation, dest, arg1, arg2) ==
    [k |-> "Math", operation |-> operation, dest |-> dest, arg1 |-> arg1, arg2 |-> arg2]

parse_op(c, tok) ==
    IF Len(tok) < 4 THEN Panic("index out of bounds")
    ELSE LET function == find_enclosing_function(c)
             rw == ir_read_two_write_one(tok[2], tok[3], tok[4], function.v)
         IN  IF ~IsOk(function) THEN function
             ELSE IF ~IsOk(rw) THEN rw
             ELSE Parsed(c, rw.v.read
                            \o << MathOp(tok[1], rw.v.dest, rw.v.arg1, rw.v.arg2) >>
                            \o rw.v.write)

\* The text after the keyword, as one term: parse_set and parse_print cut
\* the line, not the token list, so inner whitespace stays in the term.
RestAsTerm(tok, from) ==
    IF Len(tok) = from THEN tok[from]
    ELSE [t |-> tok[from].t, s |-> "<text>", n |-> Len(tok) - from]

MindustryOp(command) == [k |-> "MindustryCommand", command |-> command]

parse_print(c, tok) ==
    IF Len(tok) < 2 THEN Bail("print value")
    ELSE LET function == find_enclosing_function(c)
             read == ir_read_one_arg(RestAsTerm(tok, 2), function.v)
         IN  IF ~IsOk(function) THEN function
             ELSE IF ~IsOk(read) THEN read
             ELSE Parsed(c, Append(read.v.seq, MindustryOp(<< W("print"), read.v.arg1 >>)))

parse_set(c, tok) ==
    IF Len(tok) < 3 THEN Bail("set form is set a b")
    ELSE LET function == find_enclosing_function(c)
             seq == ir_copy_arg(tok[2], RestAsTerm(tok, 3), function.v)
         IN  IF ~IsOk(function) THEN function
             ELSE IF ~IsOk(seq) THEN seq
             ELSE Parsed(c, seq.v)

parse_mindustry_command(c, tok) ==
    IF \E i \in 1..Len(tok) : IsStackVarTok(tok[i])
    THEN Bail("parse mindustry command")
    ELSE Parsed(c, << MindustryOp(tok) >>)

\* A handle_closing_brace_more that lets an else and a while close any scope
handle_closing_brace_more_of_any_opener(c, tok, open_index) ==
    LET enclosing_function == find_enclosing_function_internal(c.scope_stack, c.ops)
        open == c.ops[open_index + 1]
    IN  IF ~IsOk(enclosing_function) THEN enclosing_function
        ELSE IF Len(tok) = 2 /\ IsKeyword(tok[1], "else") /\ IsKeyword(tok[2], "{")
        THEN (IF open.k = "If"
              THEN LET if_op == IfOp_resolve_forward(open,
                                    c.instruction_count + ElseOp_code_size)
                   IN  IF ~IsOk(if_op) THEN if_op
                       ELSE Parsed([c EXCEPT !.ops[open_index + 1] = if_op.v,
                                             !.scope_stack = Append(c.scope_stack,
                                                                    Len(c.ops))],
                                   << ElseOp_declare >>)
              ELSE Parsed([c EXCEPT !.scope_stack = Append(c.scope_stack, Len(c.ops))],
                          << ElseOp_declare >>))
        ELSE IF Len(tok) >= 1 /\ IsKeyword(tok[1], "while")
        THEN (IF open.k = "DoWhile"
              THEN LET cond == parse_condition(enclosing_function.v, Tail1(tok))
                       res == DoWhileOp_resolve_forward(open, c.instruction_count,
                                  cond.v.seq, cond.v.condition, c.backend)
                   IN  IF ~IsOk(cond) THEN cond
                       ELSE IF ~IsOk(res) THEN res
                       ELSE Parsed([c EXCEPT !.ops[open_index + 1] = res.v.op], res.v.seq)
              ELSE Parsed(c, << >>))
        ELSE Bail("unknown form of }")

\* c has the scope already popped; open_index is the popped index
handle_closing_brace_more(c, tok, open_index) ==
    LET enclosing_function == find_enclosing_function_internal(c.scope_stack, c.ops)
        open == c.ops[open_index + 1]
    IN  IF ~IsOk(enclosing_function) THEN enclosing_function
        ELSE IF Len(tok) = 2 /\ IsKeyword(tok[1], "else") /\ IsKeyword(tok[2], "{")
        THEN (IF open.k = "If"
              THEN LET if_op == IfOp_resolve_forward(open,
                                    c.instruction_count + ElseOp_code_size)
                   IN  IF ~IsOk(if_op) THEN if_op
                       ELSE Parsed([c EXCEPT !.ops[open_index + 1] = if_op.v,
                                             !.scope_stack = Append(c.scope_stack,
                                                                    Len(c.ops))],
                                   << ElseOp_declare >>)
              ELSE Bail("else does not match if statement structurally"))
        ELSE IF Len(tok) >= 1 /\ IsKeyword(tok[1], "while")
        THEN (IF open.k = "DoWhile"
              THEN LET cond == parse_condition(enclosing_function.v, Tail1(tok))
                       res == DoWhileOp_resolve_forward(open, c.instruction_count,
                                  cond.v.seq, cond.v.condition, c.backend)
                   IN  IF ~IsOk(cond) THEN cond
                       ELSE IF ~IsOk(res) THEN res
                       ELSE Parsed([c EXCEPT !.ops[open_index + 1] = res.v.op], res.v.seq)
              ELSE Bail("} while x y z construct is only valid as part of a do-while loop"))
        ELSE Bail("unknown form of }")

handle_single_closing_brace(c, open_index) ==
    LET open == c.ops[open_index + 1] IN
    CASE open.k = "Else" ->
            IF IsSome(open.end) THEN Panic("assert set.is_none()")
            ELSE Parsed([c EXCEPT !.ops[open_index + 1].end = Some(c.instruction_count)],
                        << >>)
      [] open.k = "InfiniteLoop" ->
            LET res == InfiniteLoopOp_resolve_forward(open, c.instruction_count) IN
            IF ~IsOk(res) THEN res
            ELSE Parsed([c EXCEPT !.ops[open_index + 1] = res.v.op], res.v.seq)
      [] open.k = "Function" -> Parsed(c, << >>)
      [] open.k = "If" ->
            LET if_op == IfOp_resolve_forward(open, c.instruction_count) IN
            IF ~IsOk(if_op) THEN if_op
            ELSE Parsed([c EXCEPT !.ops[open_index + 1] = if_op.v], << >>)
      [] open.k = "While" ->
            LET res == WhileOp_resolve_forward(open, c.instruction_count, c.backend) IN
            IF ~IsOk(res) THEN res
            ELSE Parsed([c EXCEPT !.ops[open_index + 1] = res.v.op], res.v.seq)
      [] OTHER -> Panic("unreachable: unexpected op on scope stack")

parse_closing_brace(c, tok) ==
    IF c.scope_stack = << >> THEN Bail("scope stack is empty")
    ELSE LET open_index == Last(c.scope_stack)
             popped == [c EXCEPT !.scope_stack = Front(c.scope_stack)]
         IN  IF Len(tok) = 0 THEN handle_single_closing_brace(popped, open_index)
             ELSE handle_closing_brace_more(popped, tok, open_index)

\* The texts after `//` of the tokens that start with `//` and end with `:`
SlashNames == {"//note", "//todo"}

\* tok[0].starts_with("//"): a token of a comment, or a token that ends
\* with `:` and starts with `//`
starts_with_slashes(tok) == tok.t = "/" \/ (tok.t = ":" /\ tok.s \in SlashNames)

parse_line(c, tok) ==
    IF tok = << >> THEN Parsed(c, << >>)
    ELSE IF IsKeyword(tok[1], "stack_config") THEN Parsed(c, << >>)
    ELSE IF IsKeyword(tok[1], "callproc") THEN parse_callproc(c, Tail1(tok))
    ELSE IF IsKeyword(tok[1], "ret") THEN parse_ret(c, Tail1(tok))
    ELSE IF tok[1].t = ":" /\ Len(tok) = 1 THEN parse_label(c, W(tok[1].s))
    ELSE IF starts_with_slashes(tok[1]) THEN Parsed(c, << >>)
    ELSE IF IsKeyword(tok[1], "push") THEN parse_push(c, Tail1(tok))
    ELSE IF IsKeyword(tok[1], "poke") THEN parse_poke(c, Tail1(tok))
    ELSE IF IsKeyword(tok[1], "peek") THEN parse_peek(c, Tail1(tok))
    ELSE IF IsKeyword(tok[1], "pop") THEN parse_pop(c, Tail1(tok))
    ELSE IF IsKeyword(tok[1], "jump") THEN parse_jump(c, Tail1(tok))
    ELSE IF IsKeyword(tok[1], "do") THEN parse_do(c, Tail1(tok))
    ELSE IF IsKeyword(tok[1], "while") THEN parse_while(c, Tail1(tok))
    ELSE IF IsKeyword(tok[1], "loop") THEN parse_loop(c, Tail1(tok))
    ELSE IF IsKeyword(tok[1], "break") THEN parse_break(c, Tail1(tok))
    ELSE IF IsKeyword(tok[1], "continue") THEN parse_continue(c, Tail1(tok))
    ELSE IF IsKeyword(tok[1], "if") THEN parse_if(c, Tail1(tok))
    ELSE IF IsKeyword(tok[1], "fn") THEN parse_function(c, Tail1(tok))
    ELSE IF IsKeyword(tok[1], "return") THEN parse_return(c, Tail1(tok))
    ELSE IF IsKeyword(tok[1], "call") THEN parse_call(c, Tail1(tok))
    ELSE IF IsKeyword(tok[1], "let") THEN parse_let(c, Tail1(tok))
    ELSE IF IsKeyword(tok[1], "}") THEN parse_closing_brace(c, Tail1(tok))
    ELSE IF IsKeyword(tok[1], "op") THEN parse_op(c, Tail1(tok))
    ELSE IF IsKeyword(tok[1], "set") THEN parse_set(c, tok)
    ELSE IF IsKeyword(tok[1], "print") THEN parse_print(c, tok)
    ELSE parse_mindustry_command(c, tok)

\* A line with its trailing semicolons kept
clean_line_keeping_semicolons(line) == line

\* clean_line: the line without the semicolons that end it.  A line is the
\* sequence of its whitespace-separated tokens; the run of semicolons that
\* ends it is a token of its own, whether or not a space comes before it,
\* and the loop stops at the space or the token before that run: of `; ;`
\* the first semicolon stays.
clean_line(line) ==
    IF line # << >> /\ Last(line) = W(";") THEN Front(line) ELSE line

\* The body of the pass 2 loop of parse: every op of the line's sequence is
\* counted and pushed.
push_sequence(c, seq) ==
    [c EXCEPT !.ops = c.ops \o seq,
              !.instruction_count = c.instruction_count
                                    + IrSequence_code_size(seq, c.backend)]

\* backend_params as parse computes them once pass 2 is over
\* backend_params with the tables put where the `end` before them is
backend_params_on_the_end(stack_config, instruction_count) ==
    IF stack_config.k = "Internal"
    THEN [k |-> "Internal", push_entry_size |-> 3, pop_entry_size |-> 2,
          poke_entry_size |-> 2, push_table_start |-> instruction_count,
          pop_table_start |-> instruction_count + 3 * stack_config.size,
          poke_table_start |-> instruction_count + 5 * stack_config.size,
          cell_name |-> W("")]
    ELSE [k |-> "External", push_entry_size |-> 0, pop_entry_size |-> 0,
          poke_entry_size |-> 0, push_table_start |-> 0, pop_table_start |-> 0,
          poke_table_start |-> 0, cell_name |-> stack_config.cell]

backend_params(stack_config, instruction_count) ==
    IF stack_config.k = "Internal"
    THEN LET push_table_start == instruction_count + 1
             pop_table_start == push_table_start + 3 * stack_config.size
             poke_table_start == pop_table_start + 2 * stack_config.size
         IN  [k |-> "Internal", push_entry_size |-> 3, pop_entry_size |-> 2,
              poke_entry_size |-> 2, push_table_start |-> push_table_start,
              pop_table_start |-> pop_table_start,
              poke_table_start |-> poke_table_start, cell_name |-> W("")]
    ELSE [k |-> "External", push_entry_size |-> 0, pop_entry_size |-> 0,
          poke_entry_size |-> 0, push_table_start |-> 0, pop_table_start |-> 0,
          poke_table_start |-> 0, cell_name |-> stack_config.cell]

(***************************************************************************)
(* Code generation (impl Operation ... ::generate).  An output line is the *)
(* sequence of its tokens; a number formatted with {} is the token N(v).   *)
(* ir is the IntermediateRepresentation                                    *)
(*   [ops, stack_config, labels, functions, backend, backend_params].      *)
(* Every generate yields Ok(lines pushed to output), Bail or Panic.        *)
(***************************************************************************)
Tmp == W("MF_tmp")

Resume == W("MF_resume")

OpLine(operation, dest, arg1, arg2) == << W("op"), W(operation), dest, arg1, arg2 >>

SetLine(dest, source) == << W("set"), dest, source >>

ReadLine(dest, cell, index) == << W("read"), dest, cell, index >>

WriteLine(source, cell, index) == << W("write"), source, cell, index >>

\* format!("jump {} {}", address, condition)
JumpLine(address, condition) ==
    << W("jump"), N(address), condition.cond, condition.arg1, condition.arg2 >>

\* The three lines that enter the push table at MF_stack_sz
PushViaTable(int) ==
    << OpLine("add", Resume, Counter, N(2)),
       OpLine("mul", Tmp, N(int.push_entry_size), StackSz),
       OpLine("add", Counter, N(int.push_table_start), Tmp) >>

\* A return address one line short: the last line of the callproc itself
CallProcOp_return_offset_short(backend) == IF backend = "Internal" THEN 3 ELSE 2

\* What callproc adds to @counter for the return address
CallProcOp_return_offset(backend) == IF backend = "Internal" THEN 4 ELSE 3

CallProcOp_generate(op, ir) ==
    IF op.target \notin DOMAIN ir.labels THEN Panic("HashMap index: key not found")
    ELSE LET target == ir.labels[op.target]
             int == ir.backend_params
         IN  IF int.k = "Internal"
             THEN Ok(<< OpLine("add", Accumulator, Counter,
                               N(CallProcOp_return_offset(ir.backend))) >>
                     \o PushViaTable(int)
                     \o << SetLine(Counter, N(target)) >>)
             ELSE Ok(<< OpLine("add", Accumulator, Counter,
                               N(CallProcOp_return_offset(ir.backend))),
                        WriteLine(Accumulator, int.cell_name, StackSz),
                        OpLine("add", StackSz, StackSz, N(1)),
                        SetLine(Counter, N(target)) >>)

RetProcOp_generate(op, ir) ==
    LET int == ir.backend_params IN
    IF int.k = "Internal"
    THEN Ok(<< OpLine("sub", StackSz, StackSz, N(1)),
               OpLine("add", Resume, Counter, N(2)),
               OpLine("mul", Tmp, N(int.pop_entry_size), StackSz),
               OpLine("add", Counter, N(int.pop_table_start), Tmp),
               SetLine(Counter, Accumulator) >>)
    ELSE Ok(<< OpLine("sub", StackSz, StackSz, N(1)),
               ReadLine(Counter, int.cell_name, StackSz) >>)

PushOp_generate(op, ir) ==
    LET int == ir.backend_params IN
    IF int.k = "Internal"
    THEN Ok(PushViaTable(int))
    ELSE Ok(<< WriteLine(Accumulator, int.cell_name, StackSz),
               OpLine("add", StackSz, StackSz, N(1)) >>)

PopOp_generate(op, ir) ==
    LET int == ir.backend_params IN
    IF int.k = "Internal"
    THEN Ok(<< OpLine("sub", StackSz, StackSz, N(1)),
               OpLine("add", Resume, Counter, N(2)),
               OpLine("mul", Tmp, N(int.pop_entry_size), StackSz),
               OpLine("add", Counter, N(int.pop_table_start), Tmp) >>)
    ELSE Ok(<< OpLine("sub", StackSz, StackSz, N(1)),
               ReadLine(Accumulator, int.cell_name, StackSz) >>)

\* A depth that counts from one past the top
DepthToTmp_from_stack_sz(depth) == << OpLine("sub", Tmp, StackSz, depth) >>

\* The lines of PeekOp and PokeOp that leave the slot index in MF_tmp:
\* MF_stack_sz - depth - 1, the index of the element depth below the top
DepthToTmp(depth) ==
    IF depth.t = "n"
    THEN << OpLine("sub", Tmp, StackSz, N(depth.n + 1)) >>
    ELSE << OpLine("sub", Tmp, StackSz, depth), OpLine("sub", Tmp, Tmp, N(1)) >>

PeekOp_generate(op, ir) ==
    LET int == ir.backend_params IN
    IF int.k = "Internal"
    THEN Ok(DepthToTmp(op.depth)
            \o << OpLine("add", Resume, Counter, N(2)),
                  OpLine("mul", Tmp, N(int.pop_entry_size), Tmp),
                  OpLine("add", Counter, N(int.pop_table_start), Tmp) >>)
    ELSE Ok(DepthToTmp(op.depth) \o << ReadLine(Accumulator, int.cell_name, Tmp) >>)

PokeOp_generate(op, ir) ==
    LET int == ir.backend_params IN
    IF int.k = "Internal"
    THEN Ok(DepthToTmp(op.depth)
            \o << OpLine("add", Resume, Counter, N(2)),
                  OpLine("mul", Tmp, N(int.poke_entry_size), Tmp),
                  OpLine("add", Counter, N(int.poke_table_start), Tmp) >>)
    ELSE Ok(DepthToTmp(op.depth) \o << WriteLine(Accumulator, int.cell_name, Tmp) >>)

SetOp_generate(op, ir) == Ok(<< SetLine(op.dest, op.source) >>)

JumpOp_generate(op, ir) ==
    IF op.target \notin DOMAIN ir.labels THEN Panic("HashMap index: key not found")
    ELSE Ok(<< JumpLine(ir.labels[op.target], op.condition) >>)

MathOp_generate(op, ir) ==
    Ok(<< << W("op"), op.operation, op.dest, op.arg1, op.arg2 >> >>)

MindustryOp_generate(op, ir) == Ok(<< op.command >>)

\* The lines that load stack slot MF_stack_sz - depth through a table
\* (pop table: into MF_acc; poke table: from MF_acc), resuming `resume`
\* lines after the first.
ViaTable(resume, depth, entry_size, table_start) ==
    << OpLine("add", Resume, Counter, N(resume)),
       OpLine("sub", Tmp, StackSz, N(depth)),
       OpLine("mul", Tmp, N(entry_size), Tmp),
       OpLine("add", Counter, N(table_start), Tmp) >>

GetStackOp_generate(op, ir) ==
    IF op.function \notin DOMAIN ir.functions THEN Panic("HashMap index: key not found")
    ELSE LET depth == FunctionOp_stack_var_depth(ir.functions[op.function], op.stack)
             int == ir.backend_params
         IN  IF ~IsOk(depth) THEN depth
             ELSE IF int.k = "Internal"
             THEN Ok(ViaTable(3, depth.v, int.pop_entry_size, int.pop_table_start)
                     \o (IF op.global # Accumulator
                         THEN << SetLine(op.global, Accumulator) >> ELSE << >>))
             ELSE Ok(<< OpLine("sub", Tmp, StackSz, N(depth.v)),
                        ReadLine(op.global, int.cell_name, Tmp) >>)

SetStackOp_generate(op, ir) ==
    IF op.function \notin DOMAIN ir.functions THEN Panic("HashMap index: key not found")
    ELSE LET depth == FunctionOp_stack_var_depth(ir.functions[op.function], op.stack)
             int == ir.backend_params
         IN  IF ~IsOk(depth) THEN depth
             ELSE IF int.k = "Internal"
             THEN Ok((IF op.global # Accumulator
                      THEN << SetLine(Accumulator, op.global) >> ELSE << >>)
                     \o ViaTable(3, depth.v, int.poke_entry_size, int.poke_table_start))
             ELSE Ok(<< OpLine("sub", Tmp, StackSz, N(depth.v)),
                        WriteLine(op.global, int.cell_name, Tmp) >>)

IfOp_generate(op, ir, instruction_count) ==
    IF IsNone(op.end) THEN Bail("Internal error: Forward reference")
    ELSE Ok(<< JumpLine(instruction_count + 2, op.condition),
               JumpLine(Unwrap(op.end), ConditionAlways) >>)

ElseOp_generate(op, ir) ==
    IF IsNone(op.end) THEN Bail("Internal error: Forward reference")
    ELSE Ok(<< JumpLine(Unwrap(op.end), ConditionAlways) >>)

LoopEndOp_generate(op, ir) == Ok(<< JumpLine(op.body_start, op.condition) >>)

\* A while that enters its body without going to the condition check
WhileOp_generate_into_body(op, ir) == Ok(<< JumpLine(op.body_start, ConditionAlways) >>)

WhileOp_generate(op, ir) ==
    LET address == Loop_condition_address(op) IN
    IF ~IsOk(address) THEN address
    ELSE Ok(<< JumpLine(address.v, ConditionAlways) >>)

BreakOp_generate(op, ir) ==
    IF op.index >= Len(ir.ops) THEN Panic("index out of bounds")
    ELSE IF ir.ops[op.index + 1].k \notin LoopKinds
    THEN Panic("unreachable: Break not from recognized loop")
    ELSE LET end == Loop_end_address(ir.ops[op.index + 1]) IN
         IF ~IsOk(end) THEN end
         ELSE Ok(<< JumpLine(end.v, ConditionAlways) >>)

ContinueOp_generate(op, ir) ==
    IF op.index >= Len(ir.ops) THEN Panic("index out of bounds")
    ELSE IF ir.ops[op.index + 1].k \notin LoopKinds
    THEN Panic("unreachable: Break not from recognized loop")
    ELSE LET condition_check == Loop_condition_address(ir.ops[op.index + 1]) IN
         IF ~IsOk(condition_check) THEN condition_check
         ELSE Ok(<< JumpLine(condition_check.v, ConditionAlways) >>)

\* The lines ReturnOp::generate emits for returned value j (zero based)
ReturnOp_value_lines(function, value, j, int) ==
    IF IsStackVarTok(value)
    THEN LET depth == FunctionOp_stack_var_depth(function, value) IN
         IF ~IsOk(depth) THEN depth
         ELSE IF int.k = "Internal"
         THEN Ok(ViaTable(3, depth.v, int.pop_entry_size, int.pop_table_start)
                 \o << SetLine(RetSlot(j), Accumulator) >>)
         ELSE Ok(<< OpLine("sub", Tmp, StackSz, N(depth.v)),
                    ReadLine(RetSlot(j), int.cell_name, Tmp) >>)
    ELSE Ok(<< SetLine(RetSlot(j), value) >>)

\* Concatenation of f[1] .. f[n] where every f[i] is a result; the first
\* failure is the result.
RECURSIVE ConcatResults(_, _)
ConcatResults(f, n) ==
    IF n = 0 THEN Ok(<< >>)
    ELSE LET head == ConcatResults(f, n - 1) IN
         IF ~IsOk(head) THEN head
         ELSE IF ~IsOk(f[n]) THEN f[n]
         ELSE Ok(head.v \o f[n].v)

\* A frame size that leaves out the slot of the return address
ReturnOp_frame_size_locals_only(function) == MapLen(function.locals)

\* What return takes off MF_stack_sz before it pops the return address
ReturnOp_frame_size(function) == 1 + MapLen(function.locals)

ReturnOp_generate(op, ir) ==
    IF op.function \notin DOMAIN ir.functions THEN Panic("HashMap index: key not found")
    ELSE LET function == ir.functions[op.function]
             int == ir.backend_params
             values == ConcatResults(
                 [j \in 1..Len(op.values) |->
                     ReturnOp_value_lines(function, op.values[j], j - 1, int)],
                 Len(op.values))
         IN  IF Len(op.values) # Len(function.returns)
             THEN Bail("function specifies a different number of return values")
             ELSE IF ~IsOk(values) THEN values
             ELSE Ok(values.v
                     \o << OpLine("sub", StackSz, StackSz, N(ReturnOp_frame_size(function))) >>
                     \o (IF int.k = "Internal"
                         THEN << OpLine("add", Resume, Counter, N(2)),
                                 OpLine("mul", Tmp, N(int.pop_entry_size), StackSz),
                                 OpLine("add", Counter, N(int.pop_table_start), Tmp),
                                 SetLine(Counter, Accumulator) >>
                         ELSE << ReadLine(Counter, int.cell_name, StackSz) >>))

\* An argument read at its depth in the caller's frame
CallOp_arg_depth_of_frame(depth, j) == depth

\* The depth of a stack variable passed as argument j (zero based): the
\* return address and j arguments have been pushed above it
CallOp_arg_depth(depth, j) == depth + j + 1

\* The lines CallOp::generate emits for argument j (zero based)
CallOp_arg_lines(op, ir, arg, j) ==
    LET int == ir.backend_params IN
    IF IsStackVarTok(arg)
    THEN IF IsNone(op.call_site_function) THEN Bail("Internal error: forward reference")
         ELSE IF Unwrap(op.call_site_function) \notin DOMAIN ir.functions
         THEN Panic("HashMap index: key not found")
         ELSE LET found == FunctionOp_stack_var_depth(
                               ir.functions[Unwrap(op.call_site_function)], arg)
                  depth == CallOp_arg_depth(found.v, j)
              IN  IF ~IsOk(found) THEN found
                  ELSE IF int.k = "Internal"
                  THEN Ok(ViaTable(3, depth, int.pop_entry_size, int.pop_table_start)
                          \o PushViaTable(int))
                  ELSE Ok(<< OpLine("sub", Tmp, StackSz, N(depth)),
                             ReadLine(Accumulator, int.cell_name, Tmp),
                             WriteLine(Accumulator, int.cell_name, StackSz),
                             OpLine("add", StackSz, StackSz, N(1)) >>)
    ELSE IF int.k = "Internal"
    THEN Ok(<< SetLine(Accumulator, arg) >> \o PushViaTable(int))
    ELSE Ok(<< WriteLine(arg, int.cell_name, StackSz),
               OpLine("add", StackSz, StackSz, N(1)) >>)

\* The lines CallOp::generate emits for return binding j (zero based)
CallOp_return_lines(op, ir, arg, j) ==
    LET int == ir.backend_params IN
    IF IsStackVarTok(arg)
    THEN IF IsNone(op.call_site_function) THEN Bail("Internal error: Forward reference")
         ELSE IF Unwrap(op.call_site_function) \notin DOMAIN ir.functions
         THEN Panic("HashMap index: key not found")
         ELSE LET depth == FunctionOp_stack_var_depth(
                               ir.functions[Unwrap(op.call_site_function)], arg)
              IN  IF ~IsOk(depth) THEN depth
                  ELSE IF int.k = "Internal"
                  THEN Ok(<< OpLine("add", Resume, Counter, N(4)),
                             SetLine(Accumulator, RetSlot(j)),
                             OpLine("sub", Tmp, StackSz, N(depth.v)),
                             OpLine("mul", Tmp, N(int.poke_entry_size), Tmp),
                             OpLine("add", Counter, N(int.poke_table_start), Tmp) >>)
                  ELSE Ok(<< OpLine("sub", Tmp, StackSz, N(depth.v)),
                             WriteLine(RetSlot(j), int.cell_name, Tmp) >>)
    ELSE Ok(<< SetLine(arg, RetSlot(j)) >>)

\* A call that reserves nothing for the callee's let variables
CallOp_additional_none(func) == 0

\* The slots a call adds to MF_stack_sz for the callee's let variables
CallOp_additional(func) == MapLen(func.locals) - Len(func.args)

CallOp_generate(op, ir) ==
    IF op.target_function \notin DOMAIN ir.functions THEN Bail("function is not found")
    ELSE LET func == ir.functions[op.target_function]
             int == ir.backend_params
             return_address ==
                 IF int.k = "Internal"
                 THEN << OpLine("add", Accumulator, Counter, N(op.before_call_size - 1)) >>
                      \o PushViaTable(int)
                 ELSE << OpLine("add", Accumulator, Counter, N(op.before_call_size - 1)),
                         WriteLine(Accumulator, int.cell_name, StackSz),
                         OpLine("add", StackSz, StackSz, N(1)) >>
             args == ConcatResults(
                 [j \in 1..Len(op.args) |-> CallOp_arg_lines(op, ir, op.args[j], j - 1)],
                 Len(op.args))
             additional == CallOp_additional(func)
             returns == ConcatResults(
                 [j \in 1..Len(op.returns) |->
                     CallOp_return_lines(op, ir, op.returns[j], j - 1)],
                 Len(op.returns))
         IN  IF Len(op.returns) # Len(func.returns)
             THEN Bail("call site specifies a different number of return values")
             ELSE IF Len(op.args) # Len(func.args)
             THEN Bail("Call site specifies a different number of arguments")
             ELSE IF ~IsOk(args) THEN args
             ELSE IF IsNone(func.address) THEN Bail("Internal error: Forward reference")
             ELSE IF ~IsOk(returns) THEN returns
             ELSE Ok(return_address
                     \o args.v
                     \o (IF additional > 0
                         THEN << OpLine("add", StackSz, StackSz, N(additional)) >>
                         ELSE << >>)
                     \o << JumpLine(Unwrap(func.address), ConditionAlways) >>
                     \o returns.v)

FunctionOp_generate(op, ir) ==
    IF op.name \notin DOMAIN ir.functions THEN Panic("HashMap index: key not found")
    ELSE Ok(<< >>)

\* impl Operation for IrOp :: generate
IrOp_generate(op, ir, instruction_count) ==
    CASE op.k = "CallProc" -> CallProcOp_generate(op, ir)
      [] op.k = "Push" -> PushOp_generate(op, ir)
      [] op.k = "Pop" -> PopOp_generate(op, ir)
      [] op.k = "Peek" -> PeekOp_generate(op, ir)
      [] op.k = "Poke" -> PokeOp_generate(op, ir)
      [] op.k = "GetStack" -> GetStackOp_generate(op, ir)
      [] op.k = "SetStack" -> SetStackOp_generate(op, ir)
      [] op.k = "Set" -> SetOp_generate(op, ir)
      [] op.k = "Math" -> MathOp_generate(op, ir)
      [] op.k = "RetProc" -> RetProcOp_generate(op, ir)
      [] op.k = "Label" -> Ok(<< >>)
      [] op.k = "MindustryCommand" -> MindustryOp_generate(op, ir)
      [] op.k = "Jump" -> JumpOp_generate(op, ir)
      [] op.k = "If" -> IfOp_generate(op, ir, instruction_count)
      [] op.k = "Else" -> ElseOp_generate(op, ir)
      [] op.k = "While" -> WhileOp_generate(op, ir)
      [] op.k = "DoWhile" -> Ok(<< >>)
      [] op.k = "InfiniteLoop" -> Ok(<< >>)
      [] op.k = "LoopEnd" -> LoopEndOp_generate(op, ir)
      [] op.k = "Break" -> BreakOp_generate(op, ir)
      [] op.k = "Continue" -> ContinueOp_generate(op, ir)
      [] op.k = "Function" -> FunctionOp_generate(op, ir)
      [] op.k = "Return" -> ReturnOp_generate(op, ir)
      [] op.k = "Call" -> CallOp_generate(op, ir)
      [] op.k = "Let" -> Ok(<< >>)

\* codegen.rs: the table entries for stack slot `index`
push(index) ==
    << SetLine(StackSlot(index), Accumulator),
       OpLine("add", StackSz, StackSz, N(1)),
       SetLine(Counter, Resume) >>

pop(index) == << SetLine(Accumulator, StackSlot(index)), SetLine(Counter, Resume) >>

\* A poke table entry that writes the slot above its own
poke_slot_above(index) ==
    << SetLine(StackSlot(index + 1), Accumulator), SetLine(Counter, Resume) >>

poke(index) == << SetLine(StackSlot(index), Accumulator), SetLine(Counter, Resume) >>

\* gen: the entries for j in 0..stack_size, in order
RECURSIVE gen(_, _, _)
gen(stack_size, generate_entry, j) ==
    IF j >= stack_size THEN << >>
    ELSE generate_entry[j] \o gen(stack_size, generate_entry, j + 1)

\* The tables without the `end` in front of them
generate_internal_stack_without_end(config) ==
    IF config.k # "Internal" \/ config.size = 0 THEN << >>
    ELSE gen(config.size, [j \in 0..config.size - 1 |-> push(j)], 0)
         \o gen(config.size, [j \in 0..config.size - 1 |-> pop(j)], 0)
         \o gen(config.size, [j \in 0..config.size - 1 |-> poke(j)], 0)

\* generate_internal_stack: the lines appended after the program
generate_internal_stack(config) ==
    IF config.k # "Internal" \/ config.size = 0 THEN << >>
    ELSE << << W("end") >> >>
         \o gen(config.size, [j \in 0..config.size - 1 |-> push(j)], 0)
         \o gen(config.size, [j \in 0..config.size - 1 |-> pop(j)], 0)
         \o gen(config.size, [j \in 0..config.size - 1 |-> poke(j)], 0)

(***************************************************************************)
(* emulator.rs.  An Instruction is a record [k, m, d, x, y, z]: k its      *)
(* variant, m the Math or Cond variant, d a jump destination and x, y, z   *)
(* its operands in the order of the variant's fields.                      *)
(***************************************************************************)
\* usize arithmetic wraps; the model keeps the wrapping at a narrower width
WordModulus == 32768

\* vec![None; 512]
CellSize == 512

Instruction(k, m, d, x, y, z) == [k |-> k, m |-> m, d |-> d, x |-> x, y |-> y, z |-> z]

NoTok == W("")

\* Cell::new: every slot None; data maps the written addresses only
Cell_new(name) == [name |-> name, data |-> EmptyMap]

MathNames == {"add", "sub", "mul", "mod"}

CondNames == {"equal", "notEqual", "lessThan", "greaterThan", "always"}

IsWord(tok) == tok.t = "w" /\ tok.n = 0

\* The body of the loop of Emulator::new for one non-empty line
decode(tok) ==
    CASE IsKeyword(tok[1], "end") ->
            IF Len(tok) # 1 THEN Bail("end takes 0 arguments")
            ELSE Ok(Instruction("End", "", 0, NoTok, NoTok, NoTok))
      [] IsKeyword(tok[1], "pause") ->
            IF Len(tok) # 1 THEN Bail("pause takes 0 arguments")
            ELSE Ok(Instruction("Pause", "", 0, NoTok, NoTok, NoTok))
      [] IsKeyword(tok[1], "op") ->
            IF Len(tok) # 5 THEN Bail("op takes 4 arguments")
            ELSE IF ~(IsWord(tok[2]) /\ tok[2].s \in MathNames)
            THEN Bail("unsupported op command")
            ELSE Ok(Instruction("Math", tok[2].s, 0, tok[3], tok[4], tok[5]))
      [] IsKeyword(tok[1], "read") ->
            IF Len(tok) # 4 THEN Bail("read takes 3 arguments")
            ELSE Ok(Instruction("Read", "", 0, tok[2], tok[3], tok[4]))
      [] IsKeyword(tok[1], "write") ->
            IF Len(tok) # 4 THEN Bail("write takes 3 arguments")
            ELSE Ok(Instruction("Write", "", 0, tok[2], tok[3], tok[4]))
      [] IsKeyword(tok[1], "set") ->
            IF Len(tok) # 3 THEN Bail("set takes 2 arguments")
            ELSE Ok(Instruction("Set", "", 0, tok[2], tok[3], NoTok))
      [] IsKeyword(tok[1], "jump") ->
            IF Len(tok) # 5 THEN Bail("jump takes 4 arguments")
            ELSE IF tok[2].t # "n" THEN Bail("jump dest must be integer")
            ELSE IF ~(IsWord(tok[3]) /\ tok[3].s \in CondNames)
            THEN Bail("Unsupported condition")
            ELSE Ok(Instruction("Jump", tok[3].s, tok[2].n, tok[4], tok[5], NoTok))
      [] IsKeyword(tok[1], "print") ->
            IF Len(tok) < 2 THEN Ok(Instruction("Print", "", 0, NoTok, NoTok, NoTok))
            ELSE Ok(Instruction("Print", "", 0, RestAsTerm(tok, 2), NoTok, NoTok))
      [] IsKeyword(tok[1], "printflush") ->
            IF Len(tok) # 2 THEN Bail("printflush takes 1 arguments")
            ELSE Ok(Instruction("PrintFlush", "", 0, tok[2], NoTok, NoTok))
      [] OTHER -> Bail("unknown instruction")

\* Emulator::new: the instructions of the non-empty lines, in order; the
\* first line that does not decode is the error
IsEmptyLine(line) == line = << >>

IsCodeLine(line) == ~IsEmptyLine(line)

decode_program(program) ==
    LET lines == SelectSeq(program, IsCodeLine)
        bad == {i \in DOMAIN lines : ~IsOk(decode(lines[i]))}
    IN  IF bad # {} THEN decode(lines[CHOOSE i \in bad : \A j \in bad : i <= j])
        ELSE Ok([i \in DOMAIN lines |-> decode(lines[i]).v])

\* resolve: a numeric token is its value, anything else is looked up
resolve(vars, arg) ==
    IF arg.t = "n" THEN Some(arg.n)
    ELSE IF arg \in DOMAIN vars THEN Some(vars[arg])
    ELSE None

unwrap_or(o, default) == IF IsSome(o) THEN Unwrap(o) ELSE default

\* An assignment that stores 0 for None
AssignOption_of_zero_for_null(vars, dest, o) == MapInsert(vars, dest, unwrap_or(o, 0))

\* vars.insert(dest, value) for Some(value), vars.remove(dest) for None
AssignOption(vars, dest, o) ==
    IF IsSome(o) THEN MapInsert(vars, dest, Unwrap(o)) ELSE MapRemove(vars, dest)

\* A comparison that null never equals anything, null included
Cond_met_null_equals_nothing(m, op1, op2) ==
    CASE m = "always" -> TRUE
      [] m = "equal" -> IsSome(op1) /\ op1 = op2
      [] m = "notEqual" -> ~(IsSome(op1) /\ op1 = op2)
      [] m = "lessThan" -> IsSome(op1) /\ IsSome(op2) /\ Unwrap(op1) < Unwrap(op2)
      [] m = "greaterThan" -> IsSome(op1) /\ IsSome(op2) /\ Unwrap(op2) < Unwrap(op1)

\* A comparison that is false as soon as one operand is null and the other
\* is not
Cond_met_false_for_one_null(m, op1, op2) ==
    CASE m = "always" -> TRUE
      [] m = "equal" -> op1 = op2
      [] m = "notEqual" -> IsSome(op1) /\ IsSome(op2) /\ op1 # op2
      [] m = "lessThan" -> IsSome(op1) /\ IsSome(op2) /\ Unwrap(op1) < Unwrap(op2)
      [] m = "greaterThan" -> IsSome(op1) /\ IsSome(op2) /\ Unwrap(op2) < Unwrap(op1)

\* Option<usize> ordering as derived by Rust: None is less than every Some
OptionLt(o1, o2) ==
    IF IsNone(o1) THEN IsSome(o2)
    ELSE IsSome(o2) /\ Unwrap(o1) < Unwrap(o2)

\* Arithmetic that stops at the ends of the word
Math_eval_saturating(m, op1, op2) ==
    CASE m = "add" -> IF op1 + op2 >= WordModulus THEN WordModulus - 1 ELSE op1 + op2
      [] m = "sub" -> IF op1 < op2 THEN 0 ELSE op1 - op2
      [] m = "mul" -> IF op1 * op2 >= WordModulus THEN WordModulus - 1 ELSE op1 * op2
      [] m = "mod" -> IF op2 > 0 THEN op1 % op2 ELSE 0

Math_eval(m, op1, op2) ==
    CASE m = "add" -> (op1 + op2) % WordModulus
      [] m = "sub" -> (op1 - op2 + WordModulus) % WordModulus
      [] m = "mul" -> (op1 * op2) % WordModulus
      [] m = "mod" -> IF op2 > 0 THEN op1 % op2 ELSE 0

Cond_met(m, op1, op2) ==
    CASE m = "always" -> TRUE
      [] m = "equal" -> op1 = op2
      [] m = "notEqual" -> op1 # op2
      [] m = "lessThan" -> OptionLt(op1, op2)
      [] m = "greaterThan" -> OptionLt(op2, op1)

CellHit(cell, cell_name, address) ==
    /\ IsSome(address)
    /\ IsSome(cell)
    /\ Unwrap(cell).name = cell_name
    /\ Unwrap(address) < CellSize

CellGet(cell, address) ==
    IF address \in DOMAIN cell.data THEN Some(cell.data[address]) ELSE None

\* .replace("\\n", "\n"): a text is the sequence of its characters
unescape(items) == [i \in DOMAIN items |-> IF items[i] = "\\n" THEN "\n" ELSE items[i]]

\* print_buffer.join("")
RECURSIVE join(_)
join(buffer) == IF buffer = << >> THEN << >> ELSE buffer[1] \o join(Tail(buffer))

\* A printflush that emits one line for a buffer that is not empty
one_line_if_any(text) == IF text = << >> THEN 0 ELSE 1

\* The number of lines str::lines() yields: one for every newline, and one
\* for what follows the last newline unless that is empty
lines_count(text) ==
    Cardinality({i \in DOMAIN text : text[i] = "\n"})
    + (IF text # << >> /\ text[Len(text)] # "\n" THEN 1 ELSE 0)

\* execute: the machine [vars, cell, print_buffer] after the instruction
execute(ins, e) ==
    CASE ins.k \in {"End", "Pause", "PrintFlush"} -> e
      [] ins.k = "Math" ->
            [e EXCEPT !.vars = MapInsert(e.vars, ins.x,
                                   Math_eval(ins.m, unwrap_or(resolve(e.vars, ins.y), 0),
                                             unwrap_or(resolve(e.vars, ins.z), 0)))]
      [] ins.k = "Read" ->
            LET address == resolve(e.vars, ins.z)
                val == IF CellHit(e.cell, ins.y, address)
                       THEN CellGet(Unwrap(e.cell), Unwrap(address))
                       ELSE None
            IN  [e EXCEPT !.vars = AssignOption(e.vars, ins.x, val)]
      [] ins.k = "Write" ->
            LET address == resolve(e.vars, ins.z)
                value == resolve(e.vars, ins.x)
            IN  IF CellHit(e.cell, ins.y, address)
                THEN [e EXCEPT !.cell = Some([Unwrap(e.cell) EXCEPT !.data =
                          AssignOption(Unwrap(e.cell).data, Unwrap(address), value)])]
                ELSE e
      [] ins.k = "Set" ->
            [e EXCEPT !.vars = AssignOption(e.vars, ins.x, resolve(e.vars, ins.y))]
      [] ins.k = "Print" ->
            LET v == resolve(e.vars, ins.x)
                text == IF ins.x.t = "q" THEN unescape(QuotedItems(ins.x.n))
                        ELSE IF IsSome(v) THEN << ToString(Unwrap(v)) >>
                        ELSE << "null" >>
            IN  [e EXCEPT !.print_buffer = Append(e.print_buffer, text)]
      [] ins.k = "Jump" ->
            IF Cond_met(ins.m, resolve(e.vars, ins.x), resolve(e.vars, ins.y))
            THEN [e EXCEPT !.vars = MapInsert(e.vars, Counter, ins.d)]
            ELSE e

(***************************************************************************)
(* Source programs.  Ws turns a tuple of words into a token line.          *)
(***************************************************************************)
Ws(words) == [i \in DOMAIN words |-> W(words[i])]

\* The stack fixture of tests/asm_test.rs, with a poke and a variable depth
StackProgram(x) ==
    << Ws(<<"set", "MF_acc">>) \o << N(x) >>,
       Ws(<<"push">>),
       Ws(<<"set", "MF_acc">>) \o << N(x + 1) >>,
       Ws(<<"push">>),
       Ws(<<"set", "MF_acc">>) \o << N(x + 2) >>,
       Ws(<<"push">>),
       Ws(<<"peek">>) \o << N(0) >>,
       Ws(<<"set", "a", "MF_acc">>),
       Ws(<<"peek">>) \o << N(2) >>,
       Ws(<<"set", "b", "MF_acc">>),
       Ws(<<"set", "d">>) \o << N(1) >>,
       Ws(<<"peek", "d">>),
       Ws(<<"set", "MF_acc">>) \o << N(x + 7) >>,
       Ws(<<"poke">>) \o << N(1) >>,
       Ws(<<"set", "MF_acc">>) \o << N(x + 9) >>,
       Ws(<<"poke", "d">>),
       Ws(<<"poke">>),
       Ws(<<"pop">>),
       Ws(<<"set", "c", "MF_acc">>),
       Ws(<<"pop">>),
       Ws(<<"pop">>) >>

\* Short forms for the lines of source programs
Kw(word) == << W(word) >>

Open == << W("{") >>

Close == << W("}") >>

CloseElse == << W("}"), W("else"), W("{") >>

If(cond, a, b) == << W("if"), W(cond), a, b, W("{") >>

While(cond, a, b) == << W("while"), W(cond), a, b, W("{") >>

CloseWhile(cond, a, b) == << W("}"), W("while"), W(cond), a, b >>

Inc(name) == OpLine("add", name, name, N(1))

\* Jumps and callprocs to labels before and after them, with ops of every
\* size in between
JumpProgram ==
    << SetLine(W("i"), N(0)),
       << W("jump"), W("fwd"), W("always") >>,
       Inc(W("skipped")),
       << LBL("back") >>,
       Inc(W("i")),
       SetLine(Accumulator, W("i")),
       Kw("push"),
       << W("peek"), N(0) >>,
       Kw("pop"),
       << LBL("fwd") >>,
       << W("jump"), W("back"), W("lessThan"), W("i"), N(2) >>,
       << W("callproc"), W("outer") >>,
       SetLine(W("done"), N(1)),
       Kw("end"),
       << LBL("inner") >>,
       Inc(W("s")),
       Kw("ret"),
       << LBL("outer") >>,
       << W("callproc"), W("inner") >>,
       << W("jump"), W("out"), W("equal"), W("s"), N(1) >>,
       Inc(W("skipped")),
       << LBL("out") >>,
       Kw("ret") >>

\* Calls with literal, global and stack arguments, with and without return
\* bindings, into functions with and without locals of their own, nested and
\* recursive
FunctionProgram(x) ==
    << SetLine(W("g"), N(x)),
       << W("call"), W("main") >>,
       SetLine(W("after"), N(1)),
       Kw("end"),
       << W("fn"), W("main"), W("{") >>,
       << W("let"), SV("a") >>,
       << W("let"), SV("b") >>,
       SetLine(SV("a"), N(10)),
       SetLine(SV("b"), N(20)),
       << W("call"), W("add3"), SV("a"), N(7), W("g"), W("->"), SV("b"), W("r") >>,
       SetLine(W("ra"), SV("a")),
       SetLine(W("rb"), SV("b")),
       << W("call"), W("noret"), SV("b") >>,
       << W("call"), W("plain"), N(40), N(41) >>,
       << W("call"), W("rec"), N(2), W("->"), W("out") >>,
       << W("call"), W("two"), W("->"), W("r1"), W("r2") >>,
       SetLine(W("ra2"), SV("a")),
       Kw("return"),
       Close,
       << W("fn"), W("add3"), SV("p"), SV("q"), SV("r"), W("->"), W("s"), W("t"), W("{") >>,
       << W("let"), SV("t") >>,
       OpLine("add", SV("t"), SV("p"), SV("q")),
       OpLine("add", SV("t"), SV("t"), SV("r")),
       << W("return"), SV("t"), SV("p") >>,
       Close,
       << W("fn"), W("noret"), SV("v"), W("{") >>,
       << W("let"), SV("w") >>,
       SetLine(SV("w"), SV("v")),
       OpLine("add", W("side"), W("side"), SV("w")),
       Kw("return"),
       Close,
       << W("fn"), W("two"), W("->"), W("x"), W("y"), W("{") >>,
       << W("return"), W("g"), N(9) >>,
       Close,
       << W("fn"), W("plain"), SV("c"), SV("d"), W("{") >>,
       OpLine("add", W("side2"), SV("c"), SV("d")),
       Kw("return"),
       Close,
       << W("fn"), W("rec"), SV("n"), W("->"), W("r"), W("{") >>,
       << W("let"), SV("m") >>,
       OpLine("add", SV("m"), SV("n"), N(50)),
       If("greaterThan", SV("n"), N(0)),
       OpLine("sub", W("k"), SV("n"), N(1)),
       << W("call"), W("rec"), W("k"), W("->"), W("sub_r") >>,
       Close,
       OpLine("add", W("depth"), W("depth"), SV("m")),
       << W("return"), SV("m") >>,
       Close >>

\* A call that passes stack variables of its caller at the second and later
\* positions, and lines that read one stack variable twice
ArgsProgram ==
    << << W("call"), W("main"), N(3) >>,
       Kw("end"),
       << W("fn"), W("main"), SV("x"), W("{") >>,
       << W("let"), SV("z") >>,
       SetLine(SV("z"), N(9)),
       << W("call"), W("sub3"), N(7), SV("x"), SV("z"), W("->"), SV("z") >>,
       SetLine(W("out"), SV("z")),
       OpLine("add", W("twice"), SV("z"), SV("z")),
       If("equal", SV("x"), SV("x")),
       Inc(W("same")),
       Close,
       Kw("return"),
       Close,
       << W("fn"), W("sub3"), SV("a"), SV("b"), SV("c"), W("->"), W("r"), W("{") >>,
       OpLine("sub", W("e"), SV("c"), SV("b")),
       OpLine("add", W("e"), W("e"), SV("a")),
       << W("return"), W("e") >>,
       Close >>

\* if with and without else, nested, with empty branches; every branch
\* counts its executions
IfProgram(x, y) ==
    << SetLine(W("x"), N(x)),
       SetLine(W("y"), N(y)),
       If("lessThan", W("x"), N(1)),
       Inc(W("a")),
       If("equal", W("y"), N(1)),
       Inc(W("b")),
       CloseElse,
       Close,
       Inc(W("a2")),
       CloseElse,
       Inc(W("c")),
       If("notEqual", W("y"), N(0)),
       Close,
       If("greaterThan", W("y"), N(1)),
       CloseElse,
       Inc(W("e")),
       Close,
       Inc(W("c2")),
       Close,
       Inc(W("z")),
       If("equal", W("x"), N(2)),
       Inc(W("f")),
       Close,
       Inc(W("z")) >>

\* The same with conditions on stack variables
IfStackProgram(x, y) ==
    << << W("call"), W("main"), N(x), N(y) >>,
       Kw("end"),
       << W("fn"), W("main"), SV("x"), SV("y"), W("{") >>,
       If("equal", SV("x"), SV("y")),
       Inc(W("a")),
       CloseElse,
       Inc(W("c")),
       Close,
       Inc(W("z")),
       If("greaterThan", SV("x"), N(1)),
       Inc(W("f")),
       Close,
       Inc(W("z")),
       Kw("return"),
       Close >>

\* while and do-while over the same bound; every body counts its iterations
WhileProgram(n) ==
    << SetLine(W("n"), N(n)),
       SetLine(W("i"), N(0)),
       While("lessThan", W("i"), W("n")),
       Inc(W("w")),
       Inc(W("i")),
       Close,
       Inc(W("z")),
       SetLine(W("j"), N(0)),
       << W("do"), W("{") >>,
       Inc(W("d")),
       Inc(W("j")),
       CloseWhile("lessThan", W("j"), W("n")),
       Inc(W("z")) >>

\* The same with the counters on the stack
WhileStackProgram(n) ==
    << << W("call"), W("main"), N(n) >>,
       Kw("end"),
       << W("fn"), W("main"), SV("n"), W("{") >>,
       << W("let"), SV("i") >>,
       SetLine(SV("i"), N(0)),
       While("lessThan", SV("i"), SV("n")),
       Inc(W("w")),
       Inc(SV("i")),
       Close,
       Inc(W("z")),
       SetLine(SV("i"), N(0)),
       << W("do"), W("{") >>,
       Inc(W("d")),
       Inc(SV("i")),
       CloseWhile("lessThan", SV("i"), SV("n")),
       Inc(W("z")),
       Kw("return"),
       Close >>

\* break and continue in while, do-while and loop, one loop nested in another.
\* The first two loops continue in iteration k and break in iteration k + 1,
\* and their condition fails after iteration 3; the third continues while
\* fewer than k iterations are done and breaks in iteration 4.
BreakProgram(k) ==
    << SetLine(W("i"), N(0)),
       While("lessThan", W("i"), N(3)),
       Inc(W("i")),
       If("equal", W("i"), N(k)),
       Kw("continue"),
       Close,
       Inc(W("a")),
       If("equal", W("i"), N(k + 1)),
       Kw("break"),
       Close,
       Inc(W("b")),
       Close,
       Inc(W("z")),
       SetLine(W("j"), N(0)),
       << W("do"), W("{") >>,
       Inc(W("j")),
       If("equal", W("j"), N(k)),
       Kw("continue"),
       Close,
       Inc(W("p")),
       If("equal", W("j"), N(k + 1)),
       Kw("break"),
       Close,
       Inc(W("q")),
       CloseWhile("lessThan", W("j"), N(3)),
       Inc(W("z")),
       SetLine(W("o"), N(0)),
       << W("loop"), W("{") >>,
       Inc(W("o")),
       SetLine(W("v"), N(0)),
       While("lessThan", W("v"), N(5)),
       Inc(W("v")),
       If("equal", W("v"), N(2)),
       Kw("break"),
       Close,
       Inc(W("u")),
       Close,
       Inc(W("after_inner")),
       If("lessThan", W("o"), N(k)),
       Kw("continue"),
       Close,
       Inc(W("t")),
       If("equal", W("o"), N(4)),
       Kw("break"),
       Close,
       Close,
       Inc(W("z")) >>

\* loop { op add c c 1; continue; break }
LoopProgram ==
    << << W("loop"), W("{") >>,
       Inc(W("c")),
       Kw("continue"),
       Kw("break"),
       Close,
       Inc(W("z")) >>

\* format!("fib{}", j)
FibSlot(j) == [t |-> "w", s |-> "fib", n |-> j]

FibInputs == 0..9

FibCall(j) ==
    << SetLine(W("arg"), N(j)),
       << W("callproc"), W("fibonacci") >>,
       SetLine(FibSlot(j), W("result")) >>

RECURSIVE FibCalls(_)
FibCalls(j) == IF j \notin FibInputs THEN << >> ELSE FibCall(j) \o FibCalls(j + 1)

\* The recursive Fibonacci procedure of tests/asm_test.rs
FibProgram ==
    << << LBL("start") >> >>
    \o FibCalls(0)
    \o << Kw("end"),
          << LBL("fibonacci") >>,
          << W("jump"), W("fib_done"), W("lessThan"), W("arg"), N(2) >>,
          SetLine(Accumulator, W("arg")),
          Kw("push"),
          OpLine("sub", W("arg"), W("arg"), N(1)),
          << W("callproc"), W("fibonacci") >>,
          Kw("pop"),
          OpLine("sub", W("arg"), Accumulator, N(2)),
          SetLine(Accumulator, W("result")),
          Kw("push"),
          << W("callproc"), W("fibonacci") >>,
          Kw("pop"),
          OpLine("add", W("result"), Accumulator, W("result")),
          Kw("ret"),
          << LBL("fib_done") >>,
          SetLine(W("result"), W("arg")),
          Kw("ret") >>

\* The if fixture of tests/if_test.rs after a push and a pop: the source ends
\* with the `}` of the if
IfLastProgram(x) ==
    << SetLine(W("x"), N(x)),
       SetLine(Accumulator, W("x")),
       Kw("push"),
       Kw("pop"),
       << LBL("stmt") >>,
       If("equal", W("x"), N(5)),
       SetLine(W("y"), N(6)),
       SetLine(W("z"), N(7)),
       Close >>

IfLastInputs == {5, 6}

IfInputs == 0..2

WhileInputs == 0..2

BreakInputs == {1, 3}

Programs ==
    { StackProgram(3), JumpProgram, FunctionProgram(5), LoopProgram, ArgsProgram }
    \cup { IfProgram(x, y) : x \in IfInputs, y \in IfInputs }
    \cup { IfStackProgram(x, y) : x \in IfInputs, y \in IfInputs }
    \cup { WhileProgram(n) : n \in WhileInputs }
    \cup { WhileStackProgram(n) : n \in WhileInputs }
    \cup { BreakProgram(k) : k \in BreakInputs }
    \cup { IfLastProgram(x) : x \in IfLastInputs }

(***************************************************************************)
(* The state machine: parse (pass 1, pass 2), generate, Emulator::new,     *)
(* Emulator::run.                                                          *)
(***************************************************************************)
\* Steps the driver of the emulator lets a program take in all
MaxSteps == 300

\* Slots of the internal stack (stack_config size N)
StackSize == 8

VARIABLES
    source,             \* the program text: a sequence of token lines
    phase,              \* where the pipeline is
    line_no,            \* the line the current pass is at
    stack_config,       \* parse: Option<StackConfig>
    preparse_fn_stack,  \* parse: Vec<Option<FunctionName>>
    context,            \* parse: ParserContext
    ir,                 \* the IntermediateRepresentation parse returns
    op_index,           \* generate: the op the loop is at
    output,             \* generate: the lines emitted
    instruction_count,  \* generate: the running count
    error,              \* the Err that parse, generate or Emulator::new returned
    instructions,       \* Emulator.instructions
    emu,                \* Emulator: [vars, cell, print_buffer]
    breakpoints,        \* Emulator.breakpoints
    max_steps,          \* run: its argument
    run_output,         \* run: the Vec it returns
    first_step,         \* run: the local of that name
    limit,              \* the driver: calls of run it may still make
    earlier,            \* the driver: what the earlier compilations of this text gave
    \* History variables: they record what happened and never feed back
    \* into the program's state.
    op_lines,           \* per op, where its lines are in output: [start, len]
    hits,               \* per address, how often it was executed
    ended,              \* the last iteration of run reset @counter to 0
    halts,              \* how often an iteration of run reset @counter to 0
    entry,              \* the machine when the op now executing began
    frames,             \* the calls that have not returned yet
    last_entry,         \* the last function entry
    last_return,        \* the last function return
    procs,              \* the callprocs that have not returned yet
    last_ret,           \* the last ret
    shadow              \* what push and callproc put on the stack and pop,
                        \* ret and poke have not yet taken off or overwritten

pipeline == << source, phase, line_no, stack_config, preparse_fn_stack, context, ir,
               op_index, output, instruction_count, error >>

machine == << instructions, emu, breakpoints, max_steps, run_output, first_step, limit,
             earlier >>

history == << hits, ended, halts, entry, frames, last_entry, last_return, procs, last_ret,
             shadow >>

pipeline_but_phase == << source, line_no, stack_config, preparse_fn_stack, context, ir,
                        op_index, output, instruction_count, error >>

vars == << pipeline, machine, op_lines, history >>

NoIr == [ops |-> << >>, stack_config |-> StackConfigInternal(0), labels |-> EmptyMap,
         functions |-> EmptyMap, backend |-> "Internal",
         backend_params |-> backend_params(StackConfigInternal(0), 0)]

\* test_util::test_compile puts the stack_config line first
StackConfigLines(size) ==
    { Ws(<<"stack_config", "size">>) \o << N(size) >>,
      Ws(<<"stack_config", "cell", "bank1">>) }

\* The state before parse is called on one of the texts
InitOf(texts, limits) ==
    /\ source \in texts
    /\ phase = "preparse"
    /\ line_no = 0
    /\ stack_config = None
    /\ preparse_fn_stack = << >>
    /\ context = [ops |-> << >>, backend |-> "Internal", instruction_count |-> 0,
                  scope_stack |-> << >>, functions |-> EmptyMap, labels |-> EmptyMap,
                  has_stack |-> FALSE]
    /\ ir = NoIr
    /\ op_index = 0
    /\ output = << >>
    /\ instruction_count = 0
    /\ error = None
    /\ earlier = << >>
    /\ instructions = << >>
    /\ emu = [vars |-> EmptyMap, cell |-> None, print_buffer |-> << >>]
    /\ breakpoints = {}
    /\ \E l \in limits : max_steps = l[1] /\ limit = l[2]
    /\ run_output = << >>
    /\ first_step = TRUE
    /\ op_lines = << >>
    /\ hits = EmptyMap
    /\ ended = FALSE
    /\ halts = 0
    /\ entry = None
    /\ frames = << >>
    /\ last_entry = None
    /\ last_return = None
    /\ procs = << >>
    /\ last_ret = None
    /\ shadow = << >>

InitWith(programs, limits, size) ==
    InitOf({<< cfg >> \o text : cfg \in StackConfigLines(size), text \in programs}, limits)

\* The drivers of the tests: run(1) over and over (test_util::step_until_equal)
\* or one long run
Init == InitWith(Programs, { << 1, MaxSteps >>, << MaxSteps, 1 >> }, StackSize)

\* One iteration of the pass 1 loop of parse
PreparseLine ==
    /\ phase = "preparse"
    /\ line_no < Len(source)
    /\ LET r == preparse_line([functions |-> context.functions,
                               stack_config |-> stack_config,
                               preparse_fn_stack |-> preparse_fn_stack],
                              clean_line(source[line_no + 1]))
       IN  IF IsOk(r)
           THEN /\ context' = [context EXCEPT !.functions = r.v.functions]
                /\ stack_config' = r.v.stack_config
                /\ preparse_fn_stack' = r.v.preparse_fn_stack
                /\ line_no' = line_no + 1
                /\ phase' = phase
                /\ error' = error
           ELSE /\ phase' = "error"
                /\ error' = Some(with_context(r, << N(line_no) >> \o source[line_no + 1]))
                /\ UNCHANGED << context, stack_config, preparse_fn_stack, line_no >>
    /\ UNCHANGED << source, ir, op_index, output, instruction_count, machine, op_lines,
                    history >>

\* parse between its two loops: the stack configuration becomes the backend
BeginParse ==
    /\ phase = "preparse"
    /\ line_no = Len(source)
    /\ LET config == unwrap_or(stack_config, StackConfigInternal(0))
           has_stack == ~(config.k = "Internal" /\ config.size = 0)
           backend == config.k
           c == [context EXCEPT !.backend = backend, !.has_stack = has_stack]
       IN  /\ stack_config' = Some(config)
           /\ context' = IF has_stack THEN push_sequence(c, << SetOp(StackSz, Zero) >>)
                         ELSE c
    /\ phase' = "parse"
    /\ line_no' = 0
    /\ UNCHANGED << source, preparse_fn_stack, ir, op_index, output, instruction_count,
                    error, machine, op_lines, history >>

\* One iteration of the pass 2 loop of parse; an error is wrapped in the
\* number of the line and its text
ParseLine ==
    /\ phase = "parse"
    /\ line_no < Len(source)
    /\ LET r == parse_line(context, clean_line(source[line_no + 1]))
       IN  IF IsOk(r)
           THEN /\ context' = push_sequence(r.v.c, r.v.seq)
                /\ line_no' = line_no + 1
                /\ phase' = phase
                /\ error' = error
           ELSE /\ phase' = "error"
                /\ error' = Some(with_context(r, << N(line_no) >> \o source[line_no + 1]))
                /\ UNCHANGED << context, line_no >>
    /\ UNCHANGED << source, stack_config, preparse_fn_stack, ir, op_index, output,
                    instruction_count, machine, op_lines, history >>

\* HashMap::into_iter: the entries of the map, in an order that is any order
RECURSIVE into_iter(_)
into_iter(m) ==
    IF DOMAIN m = {} THEN { << >> }
    ELSE UNION { { << << key, m[key] >> >> \o rest :
                     rest \in into_iter([other \in DOMAIN m \ {key} |-> m[other]]) } :
                 key \in DOMAIN m }

\* A collect that gives every function the address of the entry that came
\* first
collect_with_first_address(entries) ==
    [key \in {entries[i][1] : i \in DOMAIN entries} |->
        [(CHOOSE e \in {entries[i] : i \in DOMAIN entries} : e[1] = key)[2]
            EXCEPT !.address = entries[1][2].address]]

\* .map(|(k, v)| (k, Rc::new(v))).collect() into a HashMap
collect(entries) ==
    [key \in {entries[i][1] : i \in DOMAIN entries} |->
        (CHOOSE e \in {entries[i] : i \in DOMAIN entries} : e[1] = key)[2]]

\* The end of parse: backend_params and the IntermediateRepresentation
FinishParse ==
    /\ phase = "parse"
    /\ line_no = Len(source)
    /\ \E entries \in into_iter(context.functions) :
          ir' = [ops |-> context.ops, stack_config |-> Unwrap(stack_config),
                 labels |-> context.labels, functions |-> collect(entries),
                 backend |-> context.backend,
                 backend_params |-> backend_params(Unwrap(stack_config),
                                                   context.instruction_count)]
    /\ phase' = "generate"
    /\ UNCHANGED << source, line_no, stack_config, preparse_fn_stack, context, op_index,
                    output, instruction_count, error, machine, op_lines, history >>

\* One iteration of the loop of generate
GenerateOp ==
    /\ phase = "generate"
    /\ op_index < Len(ir.ops)
    /\ LET op == ir.ops[op_index + 1]
           r == IrOp_generate(op, ir, instruction_count)
       IN  IF IsOk(r)
           THEN /\ output' = output \o r.v
                /\ instruction_count' = instruction_count + code_size(op, ir.backend)
                /\ op_index' = op_index + 1
                /\ op_lines' = Append(op_lines, [start |-> Len(output), len |-> Len(r.v)])
                /\ phase' = phase
                /\ error' = error
           ELSE /\ phase' = "error"
                /\ error' = Some(r)
                /\ UNCHANGED << output, instruction_count, op_index, op_lines >>
    /\ UNCHANGED << source, line_no, stack_config, preparse_fn_stack, context, ir,
                    machine, history >>

\* The end of generate: the tables of the internal stack
FinishGenerate ==
    /\ phase = "generate"
    /\ op_index = Len(ir.ops)
    /\ LET tables == IF ir.backend = "Internal"
                     THEN generate_internal_stack(ir.stack_config) ELSE << >>
       IN  /\ output' = output \o tables
           /\ instruction_count' = instruction_count + Len(tables)
    /\ phase' = "compiled"
    /\ UNCHANGED << source, line_no, stack_config, preparse_fn_stack, context, ir,
                    op_index, error, machine, op_lines, history >>

\* Emulator::new on the compiled program; the cell is test_util::emu_cell
EmulatorNew ==
    /\ phase = "compiled"
    /\ LET r == decode_program(output)
       IN  IF IsOk(r)
           THEN /\ instructions' = r.v
                /\ emu' = [vars |-> EmptyMap,
                           cell |-> IF ir.backend = "External"
                                    THEN Some(Cell_new(W("bank1"))) ELSE None,
                           print_buffer |-> << >>]
                /\ phase' = "idle"
                /\ error' = error
           ELSE /\ phase' = "error"
                /\ error' = Some(r)
                /\ UNCHANGED << instructions, emu >>
    /\ UNCHANGED << source, line_no, stack_config, preparse_fn_stack, context, ir,
                    op_index, output, instruction_count, breakpoints, max_steps,
                    run_output, first_step, limit, earlier, op_lines, history >>

\* A loop that goes on until it has executed max_steps instructions
loop_counting_steps(output_lines, max) ==
    Len(SelectSeq(output_lines, LAMBDA l : l.k = "step")) < max

\* A loop that goes on until it has more than max_steps lines
loop_goes_on_once_more(output_lines, max) == Len(output_lines) <= max

\* while output.len() < max_steps
loop_goes_on(output_lines, max) == Len(output_lines) < max

\* A call of run(max_steps), up to its loop
Run ==
    /\ phase = "idle"
    /\ limit > 0
    /\ limit' = limit - 1
    /\ run_output' = << >>
    /\ first_step' = TRUE
    /\ phase' = IF instructions = << >> \/ ~loop_goes_on(<< >>, max_steps)
                THEN "idle" ELSE "running"
    /\ UNCHANGED << pipeline_but_phase, instructions, emu, breakpoints, max_steps,
                    earlier, op_lines, history >>


(***************************************************************************)
(* What the history variables record.                                      *)
(***************************************************************************)
\* The stack as a map from the written slots to their values
StackOf(e) ==
    IF IsSome(e.cell) THEN Unwrap(e.cell).data
    ELSE [i \in {t.n : t \in {u \in DOMAIN e.vars : u.s = "MF_stack[]"}} |->
             e.vars[StackSlot(i)]]

SlotGet(stack, i) == IF i \in DOMAIN stack THEN Some(stack[i]) ELSE None

Sp(e) == unwrap_or(resolve(e.vars, StackSz), 0)

CounterOf(e) == unwrap_or(resolve(e.vars, Counter), 0)

\* The op whose first line is at addr, 0 if none
OpAt(addr) ==
    LET c == {i \in DOMAIN op_lines : op_lines[i].len > 0 /\ op_lines[i].start = addr}
    IN  IF c = {} THEN 0 ELSE CHOOSE i \in c : TRUE

\* The op whose last line is at addr, 0 if none
OpEndingAt(addr) ==
    LET c == {i \in DOMAIN op_lines :
                 op_lines[i].len > 0 /\ op_lines[i].start + op_lines[i].len - 1 = addr}
    IN  IF c = {} THEN 0 ELSE CHOOSE i \in c : TRUE

InOp(addr, i) == op_lines[i].start <= addr /\ addr < op_lines[i].start + op_lines[i].len

\* The first slot of the locals of the activation now running
FrameBase(fs) == IF fs = << >> THEN 0 ELSE Last(fs).sp + 1

\* The values a call is about to pass, read where the caller keeps them
ArgValues(op, e, fs) ==
    [j \in 1..Len(op.args) |->
        LET arg == op.args[j] IN
        IF IsStackVarTok(arg)
        THEN SlotGet(StackOf(e),
                     FrameBase(fs) + ir.functions[Unwrap(op.call_site_function)].locals[arg])
        ELSE resolve(e.vars, arg)]

\* A run that takes the counter back to 0 after `end` only
wraps_on_end_only(ins, e) == ins.k = "End"

\* A run that takes the counter back to 0 after a pause as well
wraps_after_pause_too(ins, e) ==
    ins.k \in {"End", "Pause"} \/ CounterOf(e) >= Len(instructions)

\* The instruction was `end`, or the counter is past the last instruction
wraps(ins, e) == ins.k = "End" \/ CounterOf(e) >= Len(instructions)

\* An iteration that executes the instruction before it moves the counter on
execute_then_advance(ins, e, ip) ==
    LET executed == execute(ins, [e EXCEPT !.vars = MapInsert(e.vars, Counter, ip)])
    IN  [executed EXCEPT !.vars = MapInsert(executed.vars, Counter, CounterOf(executed) + 1)]

\* The middle of an iteration of run: the counter is moved on to ip + 1,
\* then the instruction is executed
advance_then_execute(ins, e, ip) ==
    execute(ins, [e EXCEPT !.vars = MapInsert(e.vars, Counter, ip + 1)])

\* A run that stops at a breakpoint on its first step as well
hits_breakpoint_on_any_step(first, ip, points) == ip \in points

\* if !first_step && self.breakpoints.contains(&ip)
hits_breakpoint(first, ip, points) == ~first /\ ip \in points

\* One iteration of the loop of run
Step ==
    /\ phase = "running"
    /\ LET ip == CounterOf(emu) IN
       IF hits_breakpoint(first_step, ip, breakpoints)
       THEN /\ run_output' = Append(run_output, [k |-> "breakpoint", ip |-> ip])
            /\ phase' = "idle"
            /\ UNCHANGED << emu, first_step, history >>
       ELSE LET ins == instructions[ip + 1]
                e2 == advance_then_execute(ins, emu, ip)
                printed == IF ins.k = "PrintFlush"
                           THEN [i \in 1..lines_count(join(e2.print_buffer)) |->
                                    [k |-> "printed", ip |-> ip]]
                           ELSE << >>
                flushed == IF ins.k = "PrintFlush"
                           THEN [e2 EXCEPT !.print_buffer = << >>] ELSE e2
                wrap == wraps(ins, flushed)
                e3 == IF wrap
                      THEN [flushed EXCEPT !.vars = MapInsert(flushed.vars, Counter, 0)]
                      ELSE flushed
                out == Append(run_output, [k |-> "step", ip |-> ip]) \o printed
                cur == OpAt(ip)
                fin == OpEndingAt(ip)
                calling == cur # 0 /\ ir.ops[cur].k = "Call"
                frames1 == IF calling
                           THEN Append(frames,
                                       [site |-> cur, sp |-> Sp(emu), stack |-> StackOf(emu),
                                        args |-> ArgValues(ir.ops[cur], emu, frames),
                                        jump_ip |-> -1, caller_base |-> FrameBase(frames)])
                           ELSE frames
                entering == /\ frames1 # << >>
                            /\ ins.k = "Jump"
                            /\ InOp(ip, Last(frames1).site)
                            /\ Last(frames1).jump_ip = -1
                returning == fin # 0 /\ ir.ops[fin].k = "Return" /\ frames1 # << >>
                calling_proc == cur # 0 /\ ir.ops[cur].k = "CallProc"
                procs1 == IF calling_proc
                          THEN Append(procs, [site |-> cur, sp |-> Sp(emu)]) ELSE procs
                returning_proc == fin # 0 /\ ir.ops[fin].k = "RetProc" /\ procs1 # << >>
                began == IF cur # 0
                         THEN Some([op |-> cur, e |-> emu, frames |-> frames,
                                    shadow |-> shadow])
                         ELSE entry
                kind == IF IsSome(began) THEN ir.ops[Unwrap(began).op].k ELSE ""
                completes == /\ IsSome(began)
                             /\ CounterOf(e3) = op_lines[Unwrap(began).op].start
                                                  + op_lines[Unwrap(began).op].len
                depth == unwrap_or(resolve(Unwrap(began).e.vars,
                                           ir.ops[Unwrap(began).op].depth), 0)
            IN  /\ emu' = e3
                /\ first_step' = FALSE
                /\ run_output' = out
                /\ phase' = IF wrap \/ ins.k = "Pause" \/ ~loop_goes_on(out, max_steps)
                            THEN "idle" ELSE "running"
                /\ hits' = MapInsert(hits, ip, IF ip \in DOMAIN hits THEN hits[ip] + 1 ELSE 1)
                /\ ended' = wrap
                /\ halts' = IF wrap THEN halts + 1 ELSE halts
                /\ entry' = began
                /\ shadow' =
                      IF kind = "Push" /\ completes
                      THEN Append(shadow, resolve(Unwrap(began).e.vars, Accumulator))
                      ELSE IF kind = "Pop" /\ completes /\ shadow # << >>
                      THEN Front(shadow)
                      ELSE IF kind = "Poke" /\ completes /\ depth < Len(shadow)
                      THEN [shadow EXCEPT ![Len(shadow) - depth] =
                               resolve(Unwrap(began).e.vars, Accumulator)]
                      ELSE IF calling_proc
                      THEN Append(shadow, Some(op_lines[cur].start + op_lines[cur].len))
                      ELSE IF returning_proc /\ shadow # << >>
                      THEN Front(shadow)
                      ELSE shadow
                /\ frames' = IF entering
                             THEN Append(Front(frames1),
                                         [Last(frames1) EXCEPT !.jump_ip = ip])
                             ELSE IF returning THEN Front(frames1)
                             ELSE frames1
                /\ last_entry' = IF entering
                                 THEN Some([site |-> Last(frames1).site,
                                            caller_sp |-> Last(frames1).sp,
                                            args |-> Last(frames1).args,
                                            sp |-> Sp(e3), counter |-> CounterOf(e3),
                                            stack |-> StackOf(e3)])
                                 ELSE last_entry
                /\ last_return' = IF returning
                                  THEN Some([site |-> Last(frames1).site,
                                             jump_ip |-> Last(frames1).jump_ip,
                                             caller_base |-> Last(frames1).caller_base,
                                             sp_before |-> Last(frames1).sp,
                                             stack_before |-> Last(frames1).stack,
                                             sp_after |-> Sp(e3), counter |-> CounterOf(e3),
                                             stack_after |-> StackOf(e3)])
                                  ELSE last_return
                /\ procs' = IF returning_proc THEN Front(procs1) ELSE procs1
                /\ last_ret' = IF returning_proc
                               THEN Some([site |-> Last(procs1).site,
                                          sp_before |-> Last(procs1).sp,
                                          sp_after |-> Sp(e3), counter |-> CounterOf(e3)])
                               ELSE last_ret
    /\ UNCHANGED << pipeline_but_phase, instructions, breakpoints, max_steps, limit,
                    earlier, op_lines >>

Next ==
    \/ PreparseLine
    \/ BeginParse
    \/ ParseLine
    \/ FinishParse
    \/ GenerateOp
    \/ FinishGenerate
    \/ EmulatorNew
    \/ Run
    \/ Step

Spec == Init /\ [][Next]_vars

\* The Fibonacci fixture, stepped one instruction at a time
FibSteps == 9000

FibStackSize == 24

InitFib == InitWith({FibProgram}, { << 1, FibSteps >> }, FibStackSize)

SpecFib == InitFib /\ [][Next]_vars

ReadLineOf(name, cell, address) == << W("read"), name, W(cell), address >>

WriteLineOf(value, cell, address) == << W("write"), value, W(cell), address >>

\* The reads and writes of test_read_write, and others next to them: of a
\* slot never written, at 512 and at 1000, at an address that is null, of a
\* cell of another name, of a value that is null; and a set to null
ReadWriteProgram ==
    << ReadLineOf(W("x"), "bank1", N(5)),
       WriteLineOf(N(5), "bank1", N(5)),
       ReadLineOf(W("x"), "bank1", N(5)),
       SetLine(W("y"), W("x")),
       WriteLineOf(N(7), "bank1", N(512)),
       ReadLineOf(W("x"), "bank1", N(512)),
       SetLine(W("x"), N(1)),
       WriteLineOf(N(10), "bank1", N(1000)),
       ReadLineOf(W("x"), "bank1", N(1000)),
       SetLine(W("x"), N(1)),
       WriteLineOf(N(8), "bank1", W("nowhere")),
       ReadLineOf(W("x"), "bank1", W("nowhere")),
       SetLine(W("x"), N(1)),
       WriteLineOf(N(9), "bank2", N(5)),
       ReadLineOf(W("x"), "bank2", N(5)),
       SetLine(W("x"), N(1)),
       SetLine(W("x"), W("nothing")),
       WriteLineOf(W("nothing"), "bank1", N(5)),
       ReadLineOf(W("y"), "bank1", N(5)),
       WriteLineOf(N(12), "bank1", N(33)),
       ReadLineOf(W("x"), "bank1", N(33)) >>

\* Arithmetic as in test_math, on operands that are null, with a divisor
\* that is 0 or null, and past both ends of the word
MathProgram ==
    << OpLine("add", W("a"), W("nothing"), N(7)),
       OpLine("sub", W("b"), W("nothing"), N(1)),
       OpLine("add", W("c"), W("b"), N(1)),
       OpLine("add", W("d"), W("b"), W("b")),
       OpLine("mul", W("e"), W("b"), W("b")),
       OpLine("mul", W("f"), W("b"), N(2)),
       OpLine("sub", W("g"), N(7), N(3)),
       OpLine("sub", W("h"), N(3), W("b")),
       OpLine("mod", W("i"), N(7), N(0)),
       OpLine("mod", W("j"), N(7), W("nothing")),
       OpLine("mod", W("k"), N(7), N(3)),
       OpLine("mod", W("l"), W("nothing"), N(3)),
       OpLine("mul", W("m"), W("nothing"), W("nowhere")),
       OpLine("mod", W("n"), W("b"), W("a")) >>

\* Sources of pass-through lines only: the texts of tests/generation_test.rs
\* and tests/mindustry_test.rs, one the emulator can run, with trailing
\* semicolons, the programs of test_out_of_bounds_counter_same_as_end, and
\* one that pauses in the middle and on its last line, one that prints one
\* line, three lines and no line, one of reads and writes, and one of
\* arithmetic
PassthroughPrograms ==
    { << >>,
      << SetLine(W("x"), N(7)) >>,
      << SetLine(W("x"), N(7)) \o << W(";") >>, << >> >>,
      << << W("ubind"), W("@poly"), W(";"), W(";") >> >>,
      << SetLine(W("a"), N(3)),
         OpLine("sub", W("a"), W("a"), N(1)),
         << W("print"), Quoted(<< "c", "c", "c", "c", "c" >>) >>,
         Kw("made_up_single_token_ok"),
         << W("printflush"), W("message1") >>,
         << W("getlink"), W("result"), N(0) >>,
         << W("ubind"), W("@poly") >> >>,
      << SetLine(W("a"), N(3)) \o << W(";") >>,
         OpLine("add", W("a"), W("a"), N(1)),
         << W("print"), W("a"), W(";") >>,
         << W("printflush"), W("message1") >>,
         OpLine("add", W("a"), W("a"), N(1)),
         << W("end"), W(";") >>,
         SetLine(W("unreached"), N(1)) >>,
      << Inc(W("x")), SetLine(Counter, N(100)), SetLine(W("y"), N(2)) >>,
      << Inc(W("x")), SetLine(Counter, N(100)) >>,
      << Inc(W("x")), SetLine(Counter, W("nothing")), SetLine(W("y"), N(2)) >>,
      << Inc(W("x")), Kw("end"), SetLine(W("y"), N(2)) >>,
      << Inc(W("x")), Kw("end") >>,
      << Inc(W("x")), Kw("pause"), Inc(W("x")), Kw("pause") >>,
      << << W("print"), W("x") >>,
         << W("printflush"), W("message1") >>,
         Inc(W("x")),
         << W("print"), Quoted(<< "c", "c", "\\n" >>) >>,
         << W("print"), W("x") >>,
         << W("print"), Quoted(<< "\\n", "c" >>) >>,
         << W("printflush"), W("message1") >>,
         Inc(W("x")),
         << W("print"), Quoted(<< >>) >>,
         << W("printflush"), W("message1") >>,
         Inc(W("x")) >>,
      ReadWriteProgram,
      MathProgram }

\* Every stack configuration a text can have: none, an internal stack of
\* size 0, an internal stack, a cell
PassthroughTexts ==
    PassthroughPrograms
    \cup { << cfg >> \o text :
              cfg \in StackConfigLines(0) \cup StackConfigLines(StackSize),
              text \in PassthroughPrograms }

\* A run of a few steps at a time
FewSteps == 3

InitPassthrough ==
    InitOf(PassthroughTexts, { << 1, MaxSteps >>, << FewSteps, MaxSteps >>, << MaxSteps, 1 >> })

SpecPassthrough == InitPassthrough /\ [][Next]_vars

\* dualistic_cosmology_if_fixture of tests/if_test.rs, `ag` being the operands
\* written after `always` and `never`
DualisticProgram(ag) ==
    << << W("if"), W("always") >> \o ag \o << W("{") >>,
       SetLine(W("a"), N(3)),
       Close,
       << W("if"), W("never") >> \o ag \o << W("{") >>,
       SetLine(W("b"), N(4)),
       Close,
       << W("if"), W("always") >> \o ag \o << W("{") >>,
       SetLine(W("c"), N(5)),
       CloseElse,
       SetLine(W("c"), N(6)),
       Close,
       << W("if"), W("never") >> \o ag \o << W("{") >>,
       OpLine("add", W("b"), W("b"), N(100)),
       CloseElse,
       OpLine("add", W("b"), W("b"), N(200)),
       Close >>

\* for ag in &["", "0 1", "0 0", "true false", "true true"]
DualisticOperands ==
    { << >>, << N(0), N(1) >>, << N(0), N(0) >>,
      << W("true"), W("false") >>, << W("true"), W("true") >> }

\* `always` and `never` with operands as the condition of a while, of a
\* do-while and of a jump
DualisticLoopProgram(ag) ==
    << << W("while"), W("never") >> \o ag \o << W("{") >>,
       Inc(W("w")),
       Close,
       << W("do"), W("{") >>,
       Inc(W("d")),
       << W("}"), W("while"), W("never") >> \o ag,
       << W("jump"), W("skip"), W("always") >> \o ag,
       Inc(W("skipped")),
       << LBL("skip") >>,
       << W("jump"), W("skip"), W("never") >> \o ag,
       SetLine(W("a"), N(3)) >>

\* A jump over one line for every comparison, with both operands null, with
\* the first one null and with the second one null
JumpOver(label, cond, a, b) ==
    << << W("jump"), W(label), W(cond), a, b >>,
       Inc(W(label)),
       << LBL(label) >> >>

NullJumpProgram ==
    << SetLine(W("x"), N(5)) >>
    \o JumpOver("ee", "equal", W("nothing"), W("nowhere"))
    \o JumpOver("nn", "notEqual", W("nothing"), W("nowhere"))
    \o JumpOver("ll", "lessThan", W("nothing"), W("nowhere"))
    \o JumpOver("gg", "greaterThan", W("nothing"), W("nowhere"))
    \o JumpOver("e1", "equal", W("nothing"), W("x"))
    \o JumpOver("e2", "equal", W("x"), W("nothing"))
    \o JumpOver("n1", "notEqual", W("nothing"), W("x"))
    \o JumpOver("n2", "notEqual", W("x"), W("nothing"))
    \o JumpOver("l1", "lessThan", W("nothing"), W("x"))
    \o JumpOver("l2", "lessThan", W("x"), W("nothing"))
    \o JumpOver("g1", "greaterThan", W("nothing"), W("x"))
    \o JumpOver("g2", "greaterThan", W("x"), W("nothing"))
    \o JumpOver("l0", "lessThan", W("nothing"), N(0))
    \o JumpOver("g0", "greaterThan", N(0), W("nothing"))
    \o << Inc(W("done")) >>

ConditionTexts ==
    { << cfg >> \o text :
         cfg \in StackConfigLines(0) \cup StackConfigLines(StackSize),
         text \in { DualisticProgram(ag) : ag \in DualisticOperands }
                  \cup { DualisticLoopProgram(ag) : ag \in DualisticOperands }
                  \cup { NullJumpProgram } }
    \cup { << cfg >> \o text : cfg \in StackConfigLines(StackSize), text \in Programs }

InitConditions == InitOf(ConditionTexts, { << MaxSteps, 1 >> })

SpecConditions == InitConditions /\ [][Next]_vars

\* A routine and a function that execute `end` themselves: the program ends
\* with their return addresses still on the stack
EndInCalleeProgram(x) ==
    << SetLine(Accumulator, N(x)),
       Kw("push"),
       << W("callproc"), W("finish") >>,
       SetLine(W("after"), N(1)),
       Kw("end"),
       << LBL("finish") >>,
       << W("call"), W("last"), N(x) >>,
       Kw("ret"),
       << W("fn"), W("last"), SV("v"), W("{") >>,
       SetLine(W("seen"), SV("v")),
       Kw("end"),
       Close >>

\* Sources that parse rejects: in pass 1, and in pass 2
ErrorPrograms ==
    { << << W("fn"), W("f"), W("->"), W("x"), W("{") >>,
         << W("return"), N(1), N(2) >>,
         Close >>,
      << SetLine(W("a"), N(1)), Kw("break") >>,
      << << W("fn"), W("f"), SV("v"), SV("v"), W("{") >>, Kw("return"), Close >>,
      << SetLine(W("a"), N(1)), << W("call"), W("nowhere") >> >> }

EndInputs == {4}

TwicePrograms == Programs \cup ErrorPrograms \cup { EndInCalleeProgram(x) : x \in EndInputs }

\* The compilations of one text the driver makes
MaxCompilations == 2

\* The address each callproc and call saves on the stack, per op
ReturnAddresses ==
    [i \in {j \in DOMAIN op_lines : ir.ops[j].k \in {"CallProc", "Call"}} |->
        op_lines[i].start + (IF ir.ops[i].k = "Call" THEN ir.ops[i].before_call_size
                             ELSE op_lines[i].len)]

\* What a compilation and its run gave
Outcome ==
    [config |-> source[1], phase |-> phase, output |-> output, error |-> error,
     returns |-> ReturnAddresses, ended |-> ended, vars |-> emu.vars, sp |-> Sp(emu),
     stack |-> StackOf(emu)]

\* The driver compiles the same text again, with either stack configuration,
\* and runs it: every fixture of the tests runs once per backend
Again ==
    /\ phase = "error" \/ (phase = "idle" /\ limit = 0)
    /\ Len(earlier) + 1 < MaxCompilations
    /\ earlier' = Append(earlier, Outcome)
    /\ \E cfg \in StackConfigLines(StackSize) : source' = << cfg >> \o Tail(source)
    /\ phase' = "preparse"
    /\ line_no' = 0
    /\ stack_config' = None
    /\ preparse_fn_stack' = << >>
    /\ context' = [ops |-> << >>, backend |-> "Internal", instruction_count |-> 0,
                   scope_stack |-> << >>, functions |-> EmptyMap, labels |-> EmptyMap,
                   has_stack |-> FALSE]
    /\ ir' = NoIr
    /\ op_index' = 0
    /\ output' = << >>
    /\ instruction_count' = 0
    /\ error' = None
    /\ instructions' = << >>
    /\ emu' = [vars |-> EmptyMap, cell |-> None, print_buffer |-> << >>]
    /\ limit' = 1
    /\ run_output' = << >>
    /\ first_step' = TRUE
    /\ op_lines' = << >>
    /\ hits' = EmptyMap
    /\ ended' = FALSE
    /\ halts' = 0
    /\ entry' = None
    /\ frames' = << >>
    /\ last_entry' = None
    /\ last_return' = None
    /\ procs' = << >>
    /\ last_ret' = None
    /\ shadow' = << >>
    /\ UNCHANGED << breakpoints, max_steps >>

\* A loop of three rounds and a line after it
BreakpointProgram ==
    << << LBL("top") >>,
       Inc(W("x")),
       OpLine("add", W("y"), W("y"), W("x")),
       << W("jump"), W("top"), W("lessThan"), W("x"), N(3) >>,
       Inc(W("z")) >>

\* The addresses a breakpoint is set at
BreakpointAddresses == {0, 1, 3}

\* Calls of run the driver makes
BreakRuns == 6

\* set_breakpoints, between two calls of run
SetBreakpoints ==
    /\ phase = "idle"
    /\ limit > 0
    /\ \E points \in SUBSET BreakpointAddresses :
          /\ points # breakpoints
          /\ breakpoints' = points
    /\ UNCHANGED << pipeline, instructions, emu, max_steps, run_output, first_step, limit,
                    earlier, op_lines, history >>

InitBreak ==
    InitOf({ BreakpointProgram, << Ws(<<"stack_config", "cell", "bank1">>) >> \o BreakpointProgram },
           { << 1, BreakRuns >>, << FewSteps, BreakRuns >>, << MaxSteps, BreakRuns >> })

NextBreak == Next \/ SetBreakpoints

SpecBreak == InitBreak /\ [][NextBreak]_vars

\* A program that never ends: it doubles x, adds 1, prints and starts over
\* (after test_loop_infinite of emulator.rs)
InfiniteProgram ==
    << << LBL("top") >>,
       OpLine("add", W("x"), W("x"), W("x")),
       Inc(W("x")),
       << W("print"), W("x") >>,
       << W("printflush"), W("message1") >>,
       << W("jump"), W("top"), W("always") >> >>

\* The calls of run the driver makes
BudgetRuns == 4

\* The values of max_steps the driver passes to run
StepBudgets == {0, 1, FewSteps}

\* The driver passes another max_steps to its next call of run
ChooseMaxSteps ==
    /\ phase = "idle"
    /\ limit > 0
    /\ \E budget \in StepBudgets :
          /\ budget # max_steps
          /\ max_steps' = budget
    /\ UNCHANGED << pipeline, instructions, emu, breakpoints, run_output, first_step, limit,
                    earlier, op_lines, history >>

InitBudget ==
    InitOf({ InfiniteProgram, << Ws(<<"stack_config", "cell", "bank1">>) >> \o InfiniteProgram },
           { << budget, BudgetRuns >> : budget \in StepBudgets })

NextBudget == Next \/ ChooseMaxSteps

SpecBudget == InitBudget /\ [][NextBudget]_vars

\* A loop over a label, without a stack
CountingProgram ==
    << SetLine(W("a"), N(1)),
       << LBL("top") >>,
       Inc(W("a")),
       << W("jump"), W("top"), W("lessThan"), W("a"), N(3) >> >>

\* A function with a let variable and an if, on a cell
LocalProgram ==
    << Ws(<<"stack_config", "cell", "bank1">>),
       << W("call"), W("f") >>,
       Kw("end"),
       << W("fn"), W("f"), W("{") >>,
       << W("let"), SV("x") >>,
       SetLine(SV("x"), N(1)),
       If("equal", SV("x"), N(1)),
       Inc(W("a")),
       Close,
       Kw("return"),
       Close >>

\* A let after the function, which neither pass accepts
LetAfterProgram == LocalProgram \o << << W("let"), SV("y") >> >>

\* The lines that are blank or start with `//`: an empty line, a comment of
\* several words, one that ends with `{`, one whose last word ends with
\* `:`, one that is one token ending with `:`, and that token before a word
BlankLine == << >>

PlainComment == << CMT("//"), W("plain"), W("words") >>

BraceComment == << CMT("//"), W("if"), W("x"), W("{") >>

ColonComment == << CMT("//"), LBL("top") >>

LabelComment == << LBL("//note") >>

LongLabelComment == << LBL("//note"), W("more") >>

IgnoredLines ==
    {BlankLine, PlainComment, BraceComment, ColonComment, LabelComment, LongLabelComment}

\* The text with the line put before its line at position at (from 1), or
\* after its last line
Inserted(text, line, at) ==
    SubSeq(text, 1, at - 1) \o << line >> \o SubSeq(text, at, Len(text))

\* Every program with one such line at any place, and with two of them
CommentTexts ==
    { Inserted(text, line, at) : text \in {CountingProgram}, line \in IgnoredLines,
                                 at \in 1..Len(CountingProgram) + 1 }
    \cup { Inserted(LocalProgram, line, at) : line \in IgnoredLines \ {ColonComment},
                                              at \in 2..Len(LocalProgram) + 1 }
    \cup { Inserted(LetAfterProgram, BraceComment, at) : at \in 2..Len(LocalProgram) + 1 }
    \cup { Inserted(Inserted(CountingProgram, a, 4), b, 2) :
              a \in IgnoredLines, b \in {BraceComment, LabelComment} }

\* The line is blank or starts with `//`
IsIgnoredLine(line) == clean_line(line) = << >> \/ starts_with_slashes(clean_line(line)[1])

\* The text without its blank lines and its lines that start with `//`
Stripped(text) == SelectSeq(text, LAMBDA line : ~IsIgnoredLine(line))

\* The driver compiles the text again without its blank lines and its
\* lines that start with `//`
WithoutComments ==
    /\ phase \in {"compiled", "error"}
    /\ earlier = << >>
    /\ Stripped(source) # source
    /\ earlier' = << [of |-> source, phase |-> phase, output |-> output, error |-> error] >>
    /\ source' = Stripped(source)
    /\ phase' = "preparse"
    /\ line_no' = 0
    /\ stack_config' = None
    /\ preparse_fn_stack' = << >>
    /\ context' = [ops |-> << >>, backend |-> "Internal", instruction_count |-> 0,
                   scope_stack |-> << >>, functions |-> EmptyMap, labels |-> EmptyMap,
                   has_stack |-> FALSE]
    /\ ir' = NoIr
    /\ op_index' = 0
    /\ output' = << >>
    /\ instruction_count' = 0
    /\ error' = None
    /\ op_lines' = << >>
    /\ UNCHANGED << instructions, emu, breakpoints, max_steps, run_output, first_step,
                    limit, history >>

InitComments == InitOf(CommentTexts, { << FewSteps, 1 >> })

NextComments == Next \/ WithoutComments

SpecComments == InitComments /\ [][NextComments]_vars

InitTwice == InitWith(TwicePrograms, { << MaxSteps, 1 >> }, StackSize)

NextTwice == Next \/ Again

SpecTwice == InitTwice /\ [][NextTwice]_vars

\* Sources with a call of a function f of one argument and one return value
\* and f itself, by the number of arguments and of bindings of the call and
\* of values of the return
Numbers(n) == [j \in 1..n |-> N(j)]

Bindings(n) == [j \in 1..n |-> W("r")]

DistinctBindings(n) == [j \in 1..n |-> IF j = 1 THEN W("r") ELSE W("r2")]

CallLine(name, args, returns) ==
    << W("call"), name >> \o args \o (IF returns = << >> THEN << >> ELSE << W("->") >> \o returns)

ArityProgram(args, returns, values) ==
    << CallLine(W("f"), args, returns),
       Kw("end"),
       << W("fn"), W("f"), SV("a"), W("->"), W("x"), W("{") >>,
       << W("return") >> \o values,
       Close >>

Counts == 0..2

ArityPrograms ==
    { ArityProgram(Numbers(a), DistinctBindings(r), Numbers(v)) :
         a \in Counts, r \in Counts, v \in Counts }
    \cup { ArityProgram(Numbers(a), Bindings(2), Numbers(1)) : a \in Counts }
    \cup { << CallLine(W("nowhere"), Numbers(a), DistinctBindings(r)) >> :
              a \in Counts, r \in Counts }

\* The words that start a line that needs a stack
StackWords ==
    {"push", "pop", "peek", "poke", "callproc", "ret", "fn", "call", "return", "let"}

\* Sources that use one construct of the stack before any other, and one
\* that uses none; all but the return and the let outside a function are
\* well formed for a compiler with a stack
NoStackPrograms ==
    { << SetLine(Accumulator, N(1)), Kw("push"), Kw("end") >>,
      << SetLine(W("a"), N(1)), Kw("pop"), Kw("push"), Kw("end") >>,
      << SetLine(W("a"), N(1)), Kw("peek"), Kw("end") >>,
      << SetLine(W("a"), N(1)), Kw("poke"), Kw("end") >>,
      << SetLine(W("a"), N(1)), << W("callproc"), W("l") >>, Kw("end"), << LBL("l") >>,
         Kw("ret") >>,
      << << W("jump"), W("skip"), W("always"), W("x"), W("false") >>, Kw("ret"),
         << LBL("skip") >>, Kw("end") >>,
      << SetLine(W("a"), N(1)), Kw("end"), << W("fn"), W("f"), W("{") >>, Kw("return"),
         Close >>,
      << SetLine(W("a"), N(1)), << W("call"), W("f") >>, Kw("end"),
         << W("fn"), W("f"), W("{") >>, Kw("return"), Close >>,
      << SetLine(W("a"), N(1)), Kw("return") >>,
      << SetLine(W("a"), N(1)), << W("let"), SV("x") >> >>,
      << SetLine(W("a"), N(1)), Inc(W("a")), Kw("end") >> }

\* Sources whose scopes close as they opened, and sources with a closing
\* line that matches no opener
ScopePrograms ==
    { << SetLine(W("a"), N(0)),
         << W("do"), W("{") >>,
         Inc(W("a")),
         CloseWhile("lessThan", W("a"), N(2)),
         If("equal", W("a"), N(2)),
         Inc(W("b")),
         CloseElse,
         Inc(W("c")),
         Close,
         Kw("end") >>,
      << SetLine(W("a"), N(0)), Close >>,
      << SetLine(W("a"), W("{")), Close >>,
      << SetLine(W("a"), N(0)), CloseElse, Close >>,
      << SetLine(W("a"), W("{")), CloseWhile("lessThan", W("a"), N(2)) >>,
      << If("equal", W("a"), N(2)), Close, Close >>,
      << While("lessThan", W("a"), N(2)), Inc(W("a")), CloseElse, Close >>,
      << << W("do"), W("{") >>, Inc(W("a")), CloseElse, Close >>,
      << << W("loop"), W("{") >>, Inc(W("a")), CloseElse, Close >>,
      << If("equal", W("a"), N(2)), CloseElse, Inc(W("a")), CloseElse, Close >>,
      << If("equal", W("a"), N(2)), Inc(W("a")), CloseWhile("lessThan", W("a"), N(2)) >>,
      << While("lessThan", W("a"), N(2)), Inc(W("a")),
         CloseWhile("lessThan", W("a"), N(2)) >>,
      << << W("loop"), W("{") >>, Inc(W("a")), CloseWhile("lessThan", W("a"), N(2)) >>,
      << If("equal", W("a"), N(2)), CloseElse, Inc(W("a")),
         CloseWhile("lessThan", W("a"), N(2)) >>,
      << << W("do"), W("{") >>, If("equal", W("a"), N(2)), Inc(W("a")),
         CloseWhile("lessThan", W("a"), N(2)), Close >> }

\* The same in a function
ScopeInFunctionPrograms ==
    { << Kw("end"), << W("fn"), W("f"), W("{") >>, Kw("return"), CloseElse, Close >>,
      << Kw("end"), << W("fn"), W("f"), W("{") >>, Kw("return"),
         CloseWhile("lessThan", W("a"), N(2)) >>,
      << Kw("end"), << W("fn"), W("f"), W("{") >>, Kw("return"), Close, Close >> }

\* Sources with a break or a continue in no loop, in a function that is
\* in a loop, and in loops
LeaveProgram(word) ==
    << SetLine(W("a"), N(0)), Kw(word), Kw("end") >>

LeaveInIfProgram(word) ==
    << If("equal", W("a"), N(0)), Kw(word), Close, Kw("end") >>

LeaveAfterLoopProgram(word) ==
    << << W("loop"), W("{") >>, Kw("end"), Close, Kw(word) >>

LeaveInFunctionProgram(word) ==
    << << W("loop"), W("{") >>,
       Kw("end"),
       << W("fn"), W("f"), W("{") >>,
       If("equal", W("a"), N(0)),
       Kw(word),
       Close,
       Kw("return"),
       Close,
       Close >>

LeaveInLoopsProgram(word) ==
    << While("lessThan", W("a"), N(2)),
       Inc(W("a")),
       << W("do"), W("{") >>,
       Inc(W("b")),
       If("lessThan", W("b"), N(2)),
       Kw(word),
       Close,
       CloseWhile("lessThan", W("b"), N(1)),
       If("equal", W("a"), N(1)),
       CloseElse,
       Kw(word),
       Close,
       Close,
       Kw("end"),
       << W("fn"), W("f"), W("{") >>,
       << W("loop"), W("{") >>,
       Kw(word),
       Kw("return"),
       Close,
       Close >>

LeaveWords == {"break", "continue"}

LeavePrograms ==
    { LeaveProgram(word) : word \in LeaveWords }
    \cup { LeaveInIfProgram(word) : word \in LeaveWords }
    \cup { LeaveAfterLoopProgram(word) : word \in LeaveWords }
    \cup { LeaveInFunctionProgram(word) : word \in LeaveWords }
    \cup { LeaveInLoopsProgram(word) : word \in LeaveWords }

\* Sources that name a stack variable outside every function: in a set,
\* an op, a let, a condition, a call; and in the operands of `always` and
\* `never`, which parse_condition does not read
StarOperands == { << SV("x"), N(1) >>, << W("a"), SV("x") >>, << SV("x"), SV("x") >>,
                  << SV("x"), SV("y") >> }

CalledProgram(call) ==
    << call, Kw("end"), << W("fn"), W("f"), SV("a"), W("->"), W("x"), W("{") >>,
       << W("return"), SV("a") >>, Close >>

StarPrograms ==
    { << SetLine(W("a"), N(1)), SetLine(o[1], o[2]), Kw("end") >> : o \in StarOperands }
    \cup { << OpLine("add", W("a"), o[1], o[2]), Kw("end") >> : o \in StarOperands }
    \cup { << OpLine("add", SV("x"), W("a"), N(1)), Kw("end") >>,
           << SetLine(W("a"), N(1)), << W("let"), SV("x") >>, Kw("end") >> }
    \cup { << If("equal", o[1], o[2]), Inc(W("b")), Close, Kw("end") >> : o \in StarOperands }
    \cup { << While("lessThan", o[1], o[2]), Inc(W("a")), Close, Kw("end") >> :
              o \in StarOperands }
    \cup { << << W("do"), W("{") >>, Inc(W("a")), CloseWhile("lessThan", o[1], o[2]),
              Kw("end") >> : o \in StarOperands }
    \cup { << << W("jump"), W("l"), W("equal"), o[1], o[2] >>, << LBL("l") >>, Kw("end") >> :
              o \in StarOperands }
    \cup { CalledProgram(CallLine(W("f"), << SV("x") >>, << W("r") >>)),
           CalledProgram(CallLine(W("f"), << N(1) >>, << SV("x") >>)) }
    \cup { << << W("jump"), W("l"), W(word), o[1], o[2] >>, Inc(W("a")), << LBL("l") >>,
              Kw("end") >> : word \in {"always", "never"}, o \in StarOperands }
    \cup { << If("always", o[1], o[2]), Inc(W("b")), Close, Kw("end") >> : o \in StarOperands }
    \cup { << While("never", o[1], o[2]), Inc(W("b")), Close, Kw("end") >> :
              o \in StarOperands }

\* Sources with functions that declare locals: in loops and branches, under
\* the same name in two functions, in a function within a function, and
\* under a name the function has already
Let(name) == << W("let"), SV(name) >>

LocalsProgram ==
    << Kw("end"),
       << W("fn"), W("f"), SV("a"), SV("b"), W("{") >>,
       Let("t"),
       While("lessThan", SV("a"), N(2)),
       Let("u"),
       If("equal", SV("u"), N(1)),
       Let("v"),
       CloseElse,
       Let("w"),
       Close,
       Close,
       Let("x"),
       Kw("return"),
       Close,
       << W("fn"), W("g"), SV("t"), W("->"), W("r"), W("{") >>,
       Let("a"),
       << W("do"), W("{") >>,
       Let("u"),
       CloseWhile("lessThan", SV("u"), N(2)),
       << W("return"), SV("a") >>,
       Close,
       << W("fn"), W("h"), W("{") >>,
       Kw("return"),
       Close >>

NestedLocalsProgram ==
    << Kw("end"),
       << W("fn"), W("outer"), SV("a"), W("{") >>,
       Let("b"),
       If("equal", SV("a"), N(1)),
       << W("fn"), W("inner"), SV("c"), W("{") >>,
       Let("d"),
       << W("loop"), W("{") >>,
       Let("b"),
       Close,
       Kw("return"),
       Close,
       Let("e"),
       Close,
       Let("f"),
       Kw("return"),
       Close >>

DuplicateLocalPrograms ==
    { << Kw("end"), << W("fn"), W("f"), SV("a"), SV("b"), W("{") >>, Let("t"), Let(n),
         Kw("return"), Close >> : n \in {"a", "b", "t"} }
    \cup { << Kw("end"), << W("fn"), W("f"), SV("a"), W("{") >>, Let("t"),
              << W("loop"), W("{") >>, Let("u"), Close, If("equal", SV("a"), N(1)),
              Let(n), Close, Kw("return"), Close >> : n \in {"u", "v"} }
    \cup { << Kw("end"), << W("fn"), W("f"), SV("a"), W("{") >>, Let("t"), Kw("return"),
              Close, Let("u") >> }

LocalsPrograms == {LocalsProgram, NestedLocalsProgram} \cup DuplicateLocalPrograms

\* Sources that parse rejects, among sources it accepts
RejectedTexts ==
    { << cfg >> \o text : cfg \in StackConfigLines(StackSize),
                          text \in {FunctionProgram(5)} \cup ArityPrograms }
    \cup { << cfg >> \o text : cfg \in StackConfigLines(StackSize),
                               text \in ScopePrograms \cup ScopeInFunctionPrograms }
    \cup { << cfg >> \o text : cfg \in StackConfigLines(StackSize), text \in LeavePrograms }
    \cup { << cfg >> \o text : cfg \in StackConfigLines(StackSize), text \in StarPrograms }
    \cup { << cfg >> \o text : cfg \in StackConfigLines(StackSize), text \in LocalsPrograms }
    \cup ScopePrograms
    \cup NoStackPrograms
    \cup { << cfg >> \o text :
              cfg \in StackConfigLines(0) \cup StackConfigLines(StackSize),
              text \in NoStackPrograms }

InitRejected == InitOf(RejectedTexts, { << MaxSteps, 1 >> })

SpecRejected == InitRejected /\ [][Next]_vars

\* Sources whose last line declares a label, and whose last lines are a
\* function without a body: nothing is emitted after the address they name
TrailingLabelProgram ==
    << SetLine(W("a"), N(1)),
       << W("jump"), W("done"), W("always"), W("x"), W("false") >>,
       Inc(W("a")),
       << LBL("done") >> >>

TrailingFunctionProgram ==
    << SetLine(W("a"), N(1)), Kw("end"), << W("fn"), W("f"), W("{") >>, Close >>

\* Sources at the corners of the compiler, among the fixtures of the tests
\* An if that is never closed
UnclosedIfProgram ==
    << SetLine(W("a"), N(1)),
       If("equal", W("a"), N(1)),
       Inc(W("b")) >>

\* A while that is never closed, in an if that is
UnclosedWhileProgram ==
    << If("equal", W("a"), N(0)),
       Inc(W("b")),
       Close,
       While("lessThan", W("a"), N(2)),
       Inc(W("a")) >>

\* A function that is never closed, as fibonacci is in
\* tests/asm_test.rs direct_fibonacci_variable_test_fixture, and a do in it
UnclosedFunctionProgram ==
    << << W("call"), W("main"), N(2) >>,
       Kw("end"),
       << W("fn"), W("main"), SV("n"), W("{") >>,
       If("lessThan", SV("n"), N(2)),
       Inc(W("small")),
       CloseElse,
       Inc(W("big")),
       Close,
       Kw("return"),
       << W("do"), W("{") >>,
       Inc(W("never")) >>

UnclosedPrograms == {UnclosedIfProgram, UnclosedWhileProgram}

\* A jump to a label that no line declares
UndeclaredJumpProgram ==
    << SetLine(W("a"), N(1)),
       << W("jump"), W("nowhere"), W("always") >>,
       Inc(W("a")) >>

\* A callproc of a label that no line declares
UndeclaredCallProcProgram ==
    << << W("callproc"), W("nowhere") >>,
       Kw("end"),
       << LBL("here") >>,
       Kw("ret") >>

CornerTexts ==
    { << cfg >> \o text :
         cfg \in StackConfigLines(0) \cup StackConfigLines(StackSize),
         text \in {TrailingLabelProgram, JumpProgram} }
    \cup { << cfg >> \o text : cfg \in StackConfigLines(StackSize),
                               text \in {TrailingFunctionProgram, FunctionProgram(5),
                                         IfStackProgram(1, 1), BreakProgram(1),
                                         UnclosedFunctionProgram,
                                         UndeclaredJumpProgram, UndeclaredCallProcProgram}
                                        \cup UnclosedPrograms }
    \cup { << cfg >> \o UndeclaredJumpProgram : cfg \in StackConfigLines(0) }
    \cup { TrailingLabelProgram }

InitCorner == InitOf(CornerTexts, { << MaxSteps, 1 >> })

SpecCorner == InitCorner /\ [][Next]_vars


(***************************************************************************)
(* Properties.                                                             *)
(***************************************************************************)
OpKinds == {ir.ops[i].k : i \in 1..Len(op_lines)}

\* C1: for every op and both backends, generate appends exactly
\* code_size(backend) lines, so instruction_count is output.len() after each
\* op (and after the stack tables).
C1_GenerateAppendsCodeSize ==
    /\ instruction_count = Len(output)
    /\ \A i \in DOMAIN op_lines :
          op_lines[i].len = code_size(ir.ops[i], ir.backend)

\* A program with calls, returns, stack variables and an if is generated
C1_Witness ==
    /\ phase = "compiled"
    /\ {"Call", "Return", "GetStack", "SetStack", "Let", "Function", "If", "Math", "Set"}
          \subseteq OpKinds
    /\ \E i \in DOMAIN op_lines :
          /\ ir.ops[i].k = "Call"
          /\ ir.ops[i].returns # << >>
          /\ op_lines[i].len > ir.ops[i].before_call_size


\* The index of the label op that declares name
LabelOpIndex(name) ==
    CHOOSE l \in DOMAIN ir.ops : ir.ops[l].k = "Label" /\ ir.ops[l].target = name

\* The sum of code_size of the ops before op l
PrecedingSize(l) == IrSequence_code_size(SubSeq(ir.ops, 1, l - 1), ir.backend)

JumpsBefore(kind) ==
    {i \in DOMAIN op_lines : ir.ops[i].k = kind /\ i < LabelOpIndex(ir.ops[i].target)}

JumpsAfter(kind) ==
    {i \in DOMAIN op_lines : ir.ops[i].k = kind /\ i > LabelOpIndex(ir.ops[i].target)}

\* C2: the line emitted for every jump L and the last line emitted for every
\* callproc L, before or after the declaration of L, targets the sum of
\* code_size of the ops that precede the label op of L.
C2_JumpsTargetLabelAddress ==
    \A i \in DOMAIN op_lines :
        /\ ir.ops[i].k = "Jump" =>
              /\ op_lines[i].len = 1
              /\ output[op_lines[i].start + 1]
                    = JumpLine(PrecedingSize(LabelOpIndex(ir.ops[i].target)),
                               ir.ops[i].condition)
        /\ ir.ops[i].k = "CallProc" =>
              output[op_lines[i].start + op_lines[i].len]
                 = SetLine(Counter, N(PrecedingSize(LabelOpIndex(ir.ops[i].target))))

\* A compiled program that jumps and callprocs both forward and backward
C2_Witness ==
    /\ phase = "compiled"
    /\ JumpsBefore("Jump") # {}
    /\ JumpsAfter("Jump") # {}
    /\ JumpsBefore("CallProc") # {}
    /\ JumpsAfter("CallProc") # {}
    /\ \E i \in JumpsAfter("Jump") : PrecedingSize(LabelOpIndex(ir.ops[i].target)) > 0


\* The address after the last line emitted for op i
AddressAfter(i) == op_lines[i].start + op_lines[i].len

\* C3: after the return of a call has executed, MF_stack_sz is what it was
\* before the call sequence began and @counter is the line following the call
\* sequence's jump to the callee (the call's start plus before_call_size),
\* where the lines that bind the return values begin; that is the line
\* following the call's last emitted instruction only when nothing is bound.
C3_ReturnRestoresStackAndResumes ==
    IsSome(last_return) =>
        LET r == Unwrap(last_return)
            call == ir.ops[r.site]
        IN  /\ r.sp_after = r.sp_before
            /\ r.counter = r.jump_ip + 1
            /\ r.counter = op_lines[r.site].start + call.before_call_size
            /\ call.returns = << >> => r.counter = AddressAfter(r.site)

\* A call made from inside a function, binding return values, has returned
C3_Witness ==
    /\ IsSome(last_return)
    /\ Unwrap(last_return).sp_before > 0
    /\ ir.ops[Unwrap(last_return).site].returns # << >>
    /\ ir.ops[Unwrap(last_return).site].args # << >>

\* C3 as stated: @counter is the line following the call site's last emitted
\* instruction
C3_ResumesAfterLastEmittedLine ==
    IsSome(last_return) =>
        /\ Unwrap(last_return).sp_after = Unwrap(last_return).sp_before
        /\ Unwrap(last_return).counter = AddressAfter(Unwrap(last_return).site)


\* C4: when control enters f.address from a call of f, which has k args and m
\* locals (args and lets together), MF_stack_sz is caller_sp + 1 + m, position
\* caller_sp holds the return address and positions caller_sp + 1 ..
\* caller_sp + k hold the passed arguments in order.
C4_EntryFrameLayout ==
    IsSome(last_entry) =>
        LET en == Unwrap(last_entry)
            call == ir.ops[en.site]
            f == ir.functions[call.target_function]
            k == Len(f.args)
            m == MapLen(f.locals)
        IN  /\ en.counter = Unwrap(f.address)
            /\ en.sp = en.caller_sp + 1 + m
            /\ SlotGet(en.stack, en.caller_sp)
                  = Some(op_lines[en.site].start + call.before_call_size)
            /\ \A j \in 1..k : SlotGet(en.stack, en.caller_sp + j) = en.args[j]

\* A function with three arguments and a let variable is entered from inside
\* another function with a stack variable, a literal and a global as arguments
C4_Witness ==
    /\ IsSome(last_entry)
    /\ LET en == Unwrap(last_entry)
           call == ir.ops[en.site]
           f == ir.functions[call.target_function]
       IN  /\ Len(f.args) = 3
           /\ MapLen(f.locals) > Len(f.args)
           /\ en.caller_sp > 0
           /\ \A j \in 1..3 : IsSome(en.args[j])
           /\ \E j \in 1..3 : IsStackVarTok(call.args[j])

\* C4 as stated: the arguments begin at position caller_sp
C4_ArgumentsFromCallerSp ==
    IsSome(last_entry) =>
        LET en == Unwrap(last_entry)
            f == ir.functions[ir.ops[en.site].target_function]
        IN  /\ en.sp = en.caller_sp + 1 + MapLen(f.locals)
            /\ \A j \in 1..Len(f.args) :
                  SlotGet(en.stack, en.caller_sp + j - 1) = en.args[j]


\* The op that began last has executed its last line
Completed(kind) ==
    /\ IsSome(entry)
    /\ ir.ops[Unwrap(entry).op].k = kind
    /\ CounterOf(emu) = AddressAfter(Unwrap(entry).op)

\* All slots but slot i are as they were when the op began
OtherSlotsUnchanged(i) ==
    \A j \in (DOMAIN StackOf(emu) \cup DOMAIN StackOf(Unwrap(entry).e)) \ {i} :
        SlotGet(StackOf(emu), j) = SlotGet(StackOf(Unwrap(entry).e), j)

MF_acc_before == resolve(Unwrap(entry).e.vars, Accumulator)

MF_acc_now == resolve(emu.vars, Accumulator)

Sp_before == Sp(Unwrap(entry).e)

Depth_before == unwrap_or(resolve(Unwrap(entry).e.vars, ir.ops[Unwrap(entry).op].depth), 0)

\* Programs that use the stack through push, pop, peek, poke, callproc and ret
\* only
NoCalls == \A i \in DOMAIN ir.ops : ir.ops[i].k # "Call"

\* C5: in both backends push stores MF_acc at index MF_stack_sz, adds 1 to
\* MF_stack_sz and keeps MF_acc; pop gives the most recently pushed value not
\* yet popped and takes 1 off MF_stack_sz; peek d reads and poke d writes the
\* element d below the top; none of them changes any other element, and peek
\* and poke leave MF_stack_sz alone.
C5_StackIsLifo ==
    /\ Completed("Push") =>
          /\ Sp(emu) = Sp_before + 1
          /\ SlotGet(StackOf(emu), Sp_before) = MF_acc_before
          /\ MF_acc_now = MF_acc_before
          /\ OtherSlotsUnchanged(Sp_before)
    /\ Completed("Pop") =>
          /\ Sp(emu) = Sp_before - 1
          /\ MF_acc_now = SlotGet(StackOf(Unwrap(entry).e), Sp_before - 1)
          /\ NoCalls => MF_acc_now = Last(Unwrap(entry).shadow)
          /\ OtherSlotsUnchanged(Sp_before)
    /\ Completed("Peek") =>
          /\ Sp(emu) = Sp_before
          /\ MF_acc_now = SlotGet(StackOf(Unwrap(entry).e), Sp_before - 1 - Depth_before)
          /\ NoCalls => MF_acc_now
                           = Unwrap(entry).shadow[Len(Unwrap(entry).shadow) - Depth_before]
          /\ OtherSlotsUnchanged(Sp_before)
    /\ Completed("Poke") =>
          /\ Sp(emu) = Sp_before
          /\ SlotGet(StackOf(emu), Sp_before - 1 - Depth_before) = MF_acc_before
          /\ OtherSlotsUnchanged(Sp_before - 1 - Depth_before)

\* A pop has given back the value written by a poke one below the top of a
\* stack of three, after the value above it was popped
C5_Witness ==
    /\ Completed("Pop")
    /\ Len(Unwrap(entry).shadow) = 2
    /\ Len(shadow) = 1
    /\ \E i \in DOMAIN ir.ops : ir.ops[i].k = "Poke" /\ ir.ops[i].depth = N(1)
    /\ \E i \in DOMAIN ir.ops : ir.ops[i].k = "Peek" /\ ir.ops[i].depth.t = "w"
    /\ IsSome(MF_acc_now)


RECURSIVE Fibonacci(_)
Fibonacci(n) == IF n < 2 THEN n ELSE Fibonacci(n - 1) + Fibonacci(n - 2)

\* C6: a ret resumes at the instruction after the sequence of the callproc it
\* answers, with MF_stack_sz as it was before that callproc, at every depth of
\* the recursion; and when the Fibonacci program ends, fib0 .. fib9 are
\* 0, 1, 1, 2, 3, 5, 8, 13, 21, 34.
C6_RetResumesAfterCallProc ==
    /\ IsSome(last_ret) =>
          /\ Unwrap(last_ret).counter = AddressAfter(Unwrap(last_ret).site)
          /\ Unwrap(last_ret).sp_after = Unwrap(last_ret).sp_before
    /\ (ended /\ halts = 1) =>
          /\ \A j \in FibInputs : resolve(emu.vars, FibSlot(j)) = Some(Fibonacci(j))
          /\ << Fibonacci(7), Fibonacci(8), Fibonacci(9) >> = << 13, 21, 34 >>
          /\ Sp(emu) = 0
          /\ procs = << >>

\* fib(6) has returned, six callprocs deep, to the callproc of the main
\* program, and its result is stored
C6_Witness ==
    /\ IsSome(last_ret)
    /\ procs = << >>
    /\ resolve(emu.vars, FibSlot(6)) = Some(8)
    /\ FibSlot(7) \notin DOMAIN emu.vars
    /\ \E i \in DOMAIN StackOf(emu) : i >= 10


\* The call whose return was the last has executed its last line
CallCompleted ==
    /\ IsSome(last_return)
    /\ IsSome(entry)
    /\ ir.ops[Unwrap(entry).op].k = "Return"
    /\ CounterOf(emu) = AddressAfter(Unwrap(last_return).site)

\* The positions of name in a sequence of names
PositionsOf(name, names) == {j \in DOMAIN names : names[j] = name}

\* C7: inside a function body, local i is read and written at depth
\* locals.len() - i from the top of the stack, which is slot i of the frame of
\* the activation that is running; and a call made by an activation, with its
\* argument pushes and its return, leaves every stack-local of that activation
\* as it was, after which the call's return bindings write the locals they
\* name and no other.
C7_LocalsBelongToTheirActivation ==
    /\ (Completed("GetStack") \/ Completed("SetStack")) =>
          LET en == Unwrap(entry)
              op == ir.ops[en.op]
              locals == ir.functions[op.function].locals
              i == locals[op.stack]
              slot == Sp(en.e) - (MapLen(locals) - i)
          IN  /\ slot = FrameBase(en.frames) + i
              /\ Sp(emu) = Sp(en.e)
              /\ op.k = "GetStack" =>
                    /\ resolve(emu.vars, op.global) = SlotGet(StackOf(en.e), slot)
                    /\ StackOf(emu) = StackOf(en.e)
              /\ op.k = "SetStack" =>
                    /\ SlotGet(StackOf(emu), slot) = resolve(en.e.vars, op.global)
                    /\ OtherSlotsUnchanged(slot)
    /\ (IsSome(last_return)
        /\ IsSome(ir.ops[Unwrap(last_return).site].call_site_function)) =>
          LET r == Unwrap(last_return)
              call == ir.ops[r.site]
              locals == ir.functions[Unwrap(call.call_site_function)].locals
          IN  /\ \A i \in 0..(MapLen(locals) - 1) :
                    SlotGet(r.stack_after, r.caller_base + i)
                       = SlotGet(r.stack_before, r.caller_base + i)
              /\ CallCompleted =>
                    \A x \in DOMAIN locals :
                        SlotGet(StackOf(emu), r.caller_base + locals[x])
                           = IF PositionsOf(x, call.returns) = {}
                             THEN SlotGet(r.stack_before, r.caller_base + locals[x])
                             ELSE resolve(emu.vars,
                                          RetSlot((CHOOSE j \in PositionsOf(x, call.returns) :
                                                      TRUE) - 1))

\* A recursive call has returned to an activation whose let variable holds
\* the value it was given before the call, and the activation has read it
C7_Witness ==
    /\ Completed("GetStack")
    /\ IsSome(last_return)
    /\ LET r == Unwrap(last_return)
           call == ir.ops[r.site]
       IN  /\ call.call_site_function = Some(call.target_function)
           /\ Len(frames) = 3
           /\ ir.ops[Unwrap(entry).op].stack = SV("m")
           /\ resolve(emu.vars, ir.ops[Unwrap(entry).op].global) = Some(51)


\* The program, without its stack_config line
Program == Tail(source)

\* The first run of the program has just ended
FirstEnd == ended /\ halts = 1

\* What a counter that op add name name 1 raised n times holds
Count(n) == IF n = 0 THEN None ELSE Some(n)

Once(condition) == IF condition THEN Some(1) ELSE None

Var(name) == resolve(emu.vars, W(name))

\* No line emitted for an op has executed more than once (the lines of the
\* stack tables, which the ops share, may have)
NoLineOfAnOpTwice ==
    \A address \in DOMAIN hits :
        address < AddressAfter(Len(op_lines)) => hits[address] = 1

\* C8: if COND { A } else { B }, nested or not and with empty or non-empty
\* branches, runs A and not B when COND holds on entry, B and not A otherwise,
\* and goes on after the whole construct; if COND { A } runs A iff COND holds.
\* The counters of IfProgram and IfStackProgram tell which branches ran.
C8_IfRunsOneBranch ==
    FirstEnd =>
        /\ \A x, y \in IfInputs :
              Program = IfProgram(x, y) =>
                 /\ Var("a") = Once(x < 1)
                 /\ Var("b") = Once(x < 1 /\ y = 1)
                 /\ Var("a2") = Once(x < 1)
                 /\ Var("c") = Once(~(x < 1))
                 /\ Var("e") = Once(~(x < 1) /\ ~(y > 1))
                 /\ Var("c2") = Once(~(x < 1))
                 /\ Var("f") = Once(x = 2)
                 /\ Var("z") = Some(2)
                 /\ NoLineOfAnOpTwice
        /\ \A x, y \in IfInputs :
              Program = IfStackProgram(x, y) =>
                 /\ Var("a") = Once(x = y)
                 /\ Var("c") = Once(x # y)
                 /\ Var("f") = Once(x > 1)
                 /\ Var("z") = Some(2)
                 /\ NoLineOfAnOpTwice

\* The run of a nested if whose else is empty and whose condition held, inside
\* the first branch of an if with an else, has ended
C8_Witness ==
    /\ FirstEnd
    /\ Program = IfProgram(0, 1)
    /\ Var("b") = Some(1)
    /\ Var("a2") = Some(1)
    /\ Var("c") = None


Hits(address) == IF address \in DOMAIN hits THEN hits[address] ELSE 0

Max(a, b) == IF a > b THEN a ELSE b

LoopEndOps == {i \in DOMAIN ir.ops : ir.ops[i].k = "LoopEnd"}

\* How often the conditional jump of the first and of the last loop of the
\* program has executed
TestsOfFirstLoop ==
    Hits(op_lines[CHOOSE i \in LoopEndOps : \A j \in LoopEndOps : i <= j].start)

TestsOfLastLoop ==
    Hits(op_lines[CHOOSE i \in LoopEndOps : \A j \in LoopEndOps : i >= j].start)

\* C9: while COND { body } runs its body zero times when COND is false on
\* entry and tests COND before every iteration (once more than it iterates);
\* do { body } while COND runs its body at least once and tests COND after
\* every iteration only (as often as it iterates); both go on after the loop
\* once COND is false.  In WhileProgram(n) COND holds for n iterations.
C9_WhileTestsFirstDoWhileLast ==
    FirstEnd =>
        \A n \in WhileInputs :
            /\ Program = WhileProgram(n) =>
                  /\ Var("w") = Count(n)
                  /\ Var("i") = Some(n)
                  /\ Var("d") = Some(Max(n, 1))
                  /\ Var("j") = Some(Max(n, 1))
                  /\ Var("z") = Some(2)
                  /\ TestsOfFirstLoop = n + 1
                  /\ TestsOfLastLoop = Max(n, 1)
            /\ Program = WhileStackProgram(n) =>
                  /\ Var("w") = Count(n)
                  /\ Var("d") = Some(Max(n, 1))
                  /\ Var("z") = Some(2)
                  /\ TestsOfFirstLoop = n + 1
                  /\ TestsOfLastLoop = Max(n, 1)

\* The run of a while and a do-while whose conditions were false from the
\* start has ended
C9_Witness ==
    /\ FirstEnd
    /\ Program = WhileProgram(0)
    /\ Var("w") = None
    /\ Var("d") = Some(1)
    /\ TestsOfFirstLoop = 1


Min(a, b) == IF a < b THEN a ELSE b

LoopOps == {i \in DOMAIN ir.ops : ir.ops[i].k \in LoopKinds}

\* The first line emitted for op i
FirstLine(i) == output[op_lines[i].start + 1]

\* The op that closes loop l: the first loop end after l whose jump goes back
\* to the line after the lines of l
EndOf(l) ==
    CHOOSE e \in LoopEndOps :
        /\ e > l
        /\ FirstLine(e)[2] = N(AddressAfter(l))
        /\ \A e2 \in LoopEndOps :
              (e2 > l /\ FirstLine(e2)[2] = N(AddressAfter(l))) => e <= e2

\* The innermost loop around op i
Enclosing(i) ==
    CHOOSE l \in LoopOps :
        /\ l < i /\ i < EndOf(l)
        /\ \A l2 \in LoopOps : (l2 < i /\ i < EndOf(l2)) => l2 <= l

\* In iteration i of the first two loops of BreakProgram(k)
Continues(k, i) == i = k

Breaks(k, i) == i = k + 1

\* Their last iteration: the break, or the failing condition after iteration 3
LastIteration(k) == Min(3, k + 1)

\* C10: the jump emitted for a break goes to the first line after the
\* innermost loop around it, the jump emitted for a continue to the condition
\* check of that loop (while, do-while) or to the start of its body (loop);
\* the counters of BreakProgram(k) are those of a run where they do so; and in
\* loop { op add c c 1; continue; break } c grows in every iteration and the
\* line emitted for the break never executes.
C10_BreakLeavesContinueRepeats ==
    /\ (phase \in {"compiled", "idle", "running"} /\ \E k \in BreakInputs :
                                                      Program = BreakProgram(k)) =>
          \A i \in DOMAIN ir.ops :
              /\ ir.ops[i].k = "Break" =>
                    FirstLine(i) = JumpLine(AddressAfter(EndOf(Enclosing(i))),
                                            ConditionAlways)
              /\ ir.ops[i].k = "Continue" =>
                    FirstLine(i)
                       = JumpLine(IF ir.ops[Enclosing(i)].k = "InfiniteLoop"
                                  THEN AddressAfter(Enclosing(i))
                                  ELSE op_lines[EndOf(Enclosing(i))].start,
                                  ConditionAlways)
    /\ FirstEnd =>
          \A k \in BreakInputs :
              Program = BreakProgram(k) =>
                 /\ Var("i") = Some(LastIteration(k))
                 /\ Var("a") = Count(Cardinality({i \in 1..LastIteration(k) :
                                                     ~Continues(k, i)}))
                 /\ Var("b") = Count(Cardinality({i \in 1..LastIteration(k) :
                                                     ~Continues(k, i) /\ ~Breaks(k, i)}))
                 /\ Var("j") = Some(LastIteration(k))
                 /\ Var("p") = Var("a")
                 /\ Var("q") = Var("b")
                 /\ Var("o") = Some(4)
                 /\ Var("v") = Some(2)
                 /\ Var("u") = Some(4)
                 /\ Var("after_inner") = Some(4)
                 /\ Var("t") = Count(Cardinality({o \in 1..4 : ~(o < k)}))
                 /\ Var("z") = Some(3)
    /\ (Program = LoopProgram /\ phase \in {"idle", "running"}) =>
          LET loop == CHOOSE l \in LoopOps : TRUE
              break == CHOOSE i \in DOMAIN ir.ops : ir.ops[i].k = "Break"
              continue == CHOOSE i \in DOMAIN ir.ops : ir.ops[i].k = "Continue"
          IN  /\ Hits(op_lines[break].start) = 0
              /\ Hits(op_lines[EndOf(loop)].start) = 0
              /\ Var("c") = Count(Hits(AddressAfter(loop)))
              /\ Hits(AddressAfter(loop)) - Hits(op_lines[continue].start) \in {0, 1}
              /\ Var("z") = None
              /\ halts = 0

\* loop { op add c c 1; continue; break } is in its fourth iteration
C10_Witness ==
    /\ Program = LoopProgram
    /\ phase = "running"
    /\ Var("c") = Some(4)
    /\ Hits(op_lines[CHOOSE i \in DOMAIN ir.ops : ir.ops[i].k = "Continue"].start) = 3

(***************************************************************************)
(* The two backends, compiled and run one after the other.                 *)
(***************************************************************************)
\* The names the compiler keeps for itself
ReservedNames ==
    {"MF_acc", "MF_stack_sz", "MF_stack_tmp", "MF_tmp", "MF_resume", "MF_stack[]",
     "MF_ret", "@counter"}

UserVars(m) == [v \in {u \in DOMAIN m : u.s \notin ReservedNames} |-> m[v]]

\* The slots below the stack pointer
LiveStack(stack, sp) == [i \in {j \in DOMAIN stack : j < sp} |-> stack[i]]

\* This run and the earlier one of the same text used different backends, and
\* both reached an `end`
BothBackendsEnded ==
    /\ phase = "idle"
    /\ ended
    /\ earlier # << >>
    /\ earlier[1].phase = "idle"
    /\ earlier[1].ended
    /\ earlier[1].config # source[1]

\* Two slot values are the address saved by the same callproc or call, each
\* in its own program's addresses
SameReturnAddress(now, before) ==
    \E i \in DOMAIN ReturnAddresses :
        /\ now = Some(ReturnAddresses[i])
        /\ before = Some(earlier[1].returns[i])

InternalCompiled ==
    /\ phase \in {"compiled", "idle", "running"}
    /\ ir.backend = "Internal"
    /\ ir.stack_config.size > 0

\* The line at an address of the output
LineAt(address) == output[address + 1]

\* The lines the ops emitted: the user program
UserLines == IF op_lines = << >> THEN 0 ELSE AddressAfter(Len(op_lines))

\* The addresses of [from, from + size)
Range(from, size) == from..(from + size - 1)

\* The user lines that jump into a table: op add @counter <start> MF_tmp
Dispatches ==
    {a \in Range(0, UserLines) :
        /\ Len(LineAt(a)) = 5
        /\ LineAt(a)[1] = W("op")
        /\ LineAt(a)[3] = Counter
        /\ LineAt(a)[5] = Tmp}

\* C12: for the internal backend with stack size N > 0 the push, pop and poke
\* tables are the output lines [P, P+3N), [P+3N, P+5N), [P+5N, P+7N), with
\* P = push_table_start = the lines before the terminating `end` plus one;
\* the ranges are disjoint from each other and from the user program, and
\* every dispatch in user code adds the entry size times an index to the
\* start of the table with that entry size.
C12_TablesWhereDispatchExpects ==
    InternalCompiled =>
        LET size == ir.stack_config.size
            int == ir.backend_params
            P == int.push_table_start
        IN  /\ P = UserLines + 1
            /\ LineAt(UserLines) = << W("end") >>
            /\ int.pop_table_start = P + 3 * size
            /\ int.poke_table_start = P + 5 * size
            /\ Len(output) = P + 7 * size
            /\ \A j \in 0..size - 1 :
                  /\ SubSeq(output, P + 3 * j + 1, P + 3 * j + 3) = push(j)
                  /\ SubSeq(output, P + 3 * size + 2 * j + 1, P + 3 * size + 2 * j + 2)
                        = pop(j)
                  /\ SubSeq(output, P + 5 * size + 2 * j + 1, P + 5 * size + 2 * j + 2)
                        = poke(j)
            /\ Range(0, UserLines) \cap Range(P, 7 * size) = {}
            /\ Range(P, 3 * size) \cap Range(P + 3 * size, 2 * size) = {}
            /\ Range(P + 3 * size, 2 * size) \cap Range(P + 5 * size, 2 * size) = {}
            /\ \A a \in Dispatches :
                  /\ a > 0
                  /\ LineAt(a)[2] = W("add")
                  /\ SubSeq(LineAt(a - 1), 1, 3) = << W("op"), W("mul"), Tmp >>
                  /\ << LineAt(a - 1)[4], LineAt(a)[4] >>
                        \in { << N(int.push_entry_size), N(P) >>,
                              << N(int.pop_entry_size), N(int.pop_table_start) >>,
                              << N(int.poke_entry_size), N(int.poke_table_start) >> }

\* A program with push, peek, poke and pop is compiled for the internal
\* backend: its user code dispatches into each of the three tables
C12_Witness ==
    /\ InternalCompiled
    /\ Tail(source) = StackProgram(3)
    /\ {LineAt(a)[4] : a \in Dispatches}
          = {N(UserLines + 1), N(UserLines + 1 + 3 * StackSize),
             N(UserLines + 1 + 5 * StackSize)}

\* The address executed last and the one executed before it in this run
LastIp == run_output[Len(run_output)].ip

PreviousIp == run_output[Len(run_output) - 1].ip

TwoSteps ==
    /\ Len(run_output) >= 2
    /\ run_output[Len(run_output)].k = "step"
    /\ run_output[Len(run_output) - 1].k = "step"

\* Where in its table entry a table line is: 0 for the first line
OffsetInEntry(address) ==
    LET size == ir.stack_config.size
        t == address - ir.backend_params.push_table_start
    IN  IF t < 3 * size THEN t % 3 ELSE (t - 3 * size) % 2

InTables(address) ==
    address >= ir.backend_params.push_table_start /\ address < Len(output)

\* The last line of a table entry: set @counter MF_resume
IsResume(address) == InTables(address) /\ LineAt(address) = SetLine(Counter, Resume)

\* The user lines that jump to the address of the `end` before the tables
JumpsToTheEnd ==
    {a \in Range(0, UserLines) :
        LineAt(a)[1] = W("jump") /\ LineAt(a)[2] = N(UserLines)}

\* No table line runs except the first of an entry after a dispatch and the
\* others after the line before them
TablesOnlyByDispatch ==
    (InternalCompiled /\ phase # "compiled" /\ TwoSteps /\ InTables(LastIp)) =>
        IF OffsetInEntry(LastIp) = 0 THEN PreviousIp \in Dispatches
        ELSE PreviousIp = LastIp - 1

Compiled == phase \in {"compiled", "idle", "running"}

IsSemicolon(tok) == tok = W(";")

\* A source line as it is to come out: without the semicolons that end it
WithoutSemicolons(line) ==
    IF line # << >> /\ IsSemicolon(Last(line)) THEN SubSeq(line, 1, Len(line) - 1) ELSE line

IsSourceLine(line) == line # << >> /\ line[1] # W("stack_config")

\* The lines of the source that are not its stack configuration, cleaned
SourceLines ==
    LET lines == SelectSeq(source, IsSourceLine)
    IN  [i \in DOMAIN lines |-> WithoutSemicolons(lines[i])]

\* C14: a source of pass-through lines only compiles to: with an internal
\* stack of size N > 0, `set MF_stack_sz 0`, the source lines without their
\* trailing semicolons, `end`, and the push, pop and poke tables of N entries
\* each; with a cell, `set MF_stack_sz 0` and the source lines; with stack
\* size 0 or no stack configuration, the source lines and nothing else.
C14_PassthroughOutput ==
    (Compiled /\ source \in PassthroughTexts) =>
        LET config == ir.stack_config
            size == config.size
            init == << SetLine(W("MF_stack_sz"), N(0)) >>
            body == Len(SourceLines) + 1
        IN  IF config.k = "External" THEN output = init \o SourceLines
            ELSE IF size = 0 THEN output = SourceLines
            ELSE /\ SubSeq(output, 1, body + 1) = init \o SourceLines \o << Kw("end") >>
                 /\ Len(output) = body + 1 + 7 * size
                 /\ \A j \in 0..size - 1 :
                       /\ SubSeq(output, body + 3 * j + 2, body + 3 * j + 4)
                             = << SetLine(StackSlot(j), W("MF_acc")),
                                  OpLine("add", W("MF_stack_sz"), W("MF_stack_sz"), N(1)),
                                  SetLine(W("@counter"), W("MF_resume")) >>
                       /\ SubSeq(output, body + 3 * size + 2 * j + 2,
                                 body + 3 * size + 2 * j + 3)
                             = << SetLine(W("MF_acc"), StackSlot(j)),
                                  SetLine(W("@counter"), W("MF_resume")) >>
                       /\ SubSeq(output, body + 5 * size + 2 * j + 2,
                                 body + 5 * size + 2 * j + 3)
                             = << SetLine(StackSlot(j), W("MF_acc")),
                                  SetLine(W("@counter"), W("MF_resume")) >>

\* The three kinds of output, each for a source with trailing semicolons
C14_Witness ==
    /\ Compiled
    /\ source \in PassthroughTexts
    /\ Len(SourceLines) = 7
    /\ \E i \in DOMAIN source : source[i] # << >> /\ IsSemicolon(Last(source[i]))
    /\ \/ ir.stack_config.k = "External"
       \/ ir.stack_config.k = "Internal" /\ ir.stack_config.size = StackSize
    /\ phase = "running"

(***************************************************************************)
(* Compiling the same text again.                                          *)
(***************************************************************************)
\* This compilation is of the same text with the same stack configuration
\* as the earlier one
SameInputAgain == earlier # << >> /\ earlier[1].config = source[1]

\* C15: the compiler is a function of the source and the backend: the second
\* compilation of the same input gives the output the first one gave, or the
\* error the first one gave, whatever order the maps of the compiler are
\* iterated in and whatever was compiled before.
C15_SameInputSameOutput ==
    SameInputAgain =>
        /\ Compiled => earlier[1].phase # "error" /\ output = earlier[1].output
        /\ phase = "error" =>
              /\ earlier[1].phase = "error"
              /\ error = earlier[1].error
              /\ output = earlier[1].output

\* A source with six functions has been compiled for the second time with
\* the same stack configuration, and a source that parse rejects has been
\* rejected for the second time
C15_Witness ==
    /\ SameInputAgain
    /\ \/ phase = "compiled" /\ Cardinality(DOMAIN ir.functions) = 6 /\ Len(output) > 100
       \/ phase = "error" /\ IsSome(error) /\ Tail(source) \in ErrorPrograms

(***************************************************************************)
(* The text of the conditions.                                             *)
(***************************************************************************)
\* The word of the condition a source line is written with: of `if c .. {`,
\* `while c .. {`, `jump label c ..` and `} while c ..`
ConditionWords(line) ==
    IF Len(line) >= 2 /\ line[1] \in {W("if"), W("while")} THEN {line[2]}
    ELSE IF Len(line) >= 3 /\ line[1] = W("jump") THEN {line[3]}
    ELSE IF Len(line) >= 3 /\ line[1] = W("}") /\ line[2] = W("while") THEN {line[3]}
    ELSE {}

\* The jumps a source line asks for beside the one of its condition: past
\* the else branch or to the end of an if, to the condition check of a while,
\* back to the start of a loop, out of and back into a loop, into a function
JumpsBesideCondition(line) ==
    IF line = << >> THEN 0
    ELSE IF line[1] \in {W("if"), W("while"), W("loop"), W("break"), W("continue"), W("call")}
    THEN 1
    ELSE IF line = CloseElse THEN 1
    ELSE 0

UnconditionalJumps(line) ==
    JumpsBesideCondition(line) + (IF W("always") \in ConditionWords(line) THEN 1 ELSE 0)

IsJump(line) == Len(line) = 5 /\ line[1] = W("jump")

JumpsWith(condition) == {a \in DOMAIN output : IsJump(output[a]) /\ SubSeq(output[a], 3, 5) = condition}

\* C16: every jump in the output whose condition is `always` reads
\* `always x false` and none reads `never`; the source lines that ask for
\* an unconditional jump (if, else, while, loop, break, continue, call, and
\* a condition written `always` with or without operands) get one jump
\* `always x false` each, and every condition written `never`, with or
\* without operands, gets one jump `equal 0 1`.
C16_AlwaysAndNeverText ==
    (Compiled /\ source \in ConditionTexts) =>
        /\ \A a \in DOMAIN output :
              IsJump(output[a]) =>
                 /\ output[a][3] = W("always") => SubSeq(output[a], 4, 5) = << W("x"), W("false") >>
                 /\ output[a][3] # W("never")
        /\ Cardinality(JumpsWith(<< W("always"), W("x"), W("false") >>))
              = Cardinality({i \in DOMAIN SourceLines : UnconditionalJumps(SourceLines[i]) >= 1})
                + Cardinality({i \in DOMAIN SourceLines : UnconditionalJumps(SourceLines[i]) >= 2})
        /\ Cardinality(JumpsWith(<< W("equal"), N(0), N(1) >>))
              = Cardinality({i \in DOMAIN SourceLines : W("never") \in ConditionWords(SourceLines[i])})

\* The fixture with the operands `true true` after every `always` and `never`
\* has been compiled and run to its end
C16_Witness ==
    /\ Tail(source) = DualisticProgram(<< W("true"), W("true") >>)
    /\ phase = "idle"
    /\ JumpsWith(<< W("equal"), N(0), N(1) >>) # {}
    /\ Len(run_output) > 5

(***************************************************************************)
(* The counter after an instruction.                                       *)
(***************************************************************************)
\* The value an operand has while the instruction at ip executes: the
\* counter reads ip + 1, a name without a value reads 0
OperandAt(ip, tok) ==
    IF tok.t = "n" THEN tok.n
    ELSE IF tok = Counter THEN ip + 1
    ELSE IF tok \in DOMAIN emu.vars THEN emu.vars[tok]
    ELSE 0

\* The jump at ip is taken
Taken(ins, ip) ==
    LET known(tok) == tok.t = "n" \/ tok = Counter \/ tok \in DOMAIN emu.vars
        a == OperandAt(ip, ins.x)
        b == OperandAt(ip, ins.y)
    IN  CASE ins.m = "always" -> TRUE
          [] ins.m = "equal" -> known(ins.x) = known(ins.y) /\ (known(ins.x) => a = b)
          [] ins.m = "notEqual" -> ~(known(ins.x) = known(ins.y) /\ (known(ins.x) => a = b))
          [] ins.m = "lessThan" -> known(ins.y) /\ (known(ins.x) => a < b)
          [] ins.m = "greaterThan" -> known(ins.x) /\ (known(ins.y) => b < a)

\* The instruction at ip writes @counter
WritesCounter(ins, ip) ==
    \/ ins.k \in {"Math", "Set", "Read"} /\ ins.x = Counter
    \/ ins.k = "Jump" /\ Taken(ins, ip)

\* The value the instruction at ip writes to @counter, 0 for null
WrittenCounter(ins, ip) ==
    CASE ins.k = "Math" ->
            LET a == OperandAt(ip, ins.y)
                b == OperandAt(ip, ins.z)
            IN  IF ins.m = "add" THEN (a + b) % WordModulus
                ELSE IF ins.m = "sub" THEN (a - b + WordModulus) % WordModulus
                ELSE IF ins.m = "mul" THEN (a * b) % WordModulus
                ELSE IF b > 0 THEN a % b ELSE 0
      [] ins.k = "Set" -> OperandAt(ip, ins.y)
      [] ins.k = "Read" ->
            LET address == OperandAt(ip, ins.z) IN
            IF /\ IsSome(emu.cell)
               /\ Unwrap(emu.cell).name = ins.y
               /\ address \in DOMAIN Unwrap(emu.cell).data
            THEN Unwrap(emu.cell).data[address]
            ELSE 0
      [] ins.k = "Jump" -> ins.d

\* This step of run executes the instruction at the counter
Executes ==
    /\ phase = "running"
    /\ first_step \/ CounterOf(emu) \notin breakpoints
    /\ run_output' # run_output

\* C17: the instruction executed after one that writes @counter (an op or a
\* set or a read with @counter as its destination, a jump that is taken) is
\* the one at the value written, and after any other instruction it is the
\* one at ip + 1; when the instruction was `end` or that address is past the
\* last instruction, it is the one at 0.
C17_NextInstruction ==
    [][Executes =>
          LET ip == CounterOf(emu)
              ins == instructions[ip + 1]
              next == IF WritesCounter(ins, ip) THEN WrittenCounter(ins, ip) ELSE ip + 1
          IN  CounterOf(emu') = IF ins.k = "End" \/ next >= Len(instructions) THEN 0 ELSE next]_vars

\* The two last instructions executed: a read into @counter was followed by
\* the instruction at the value read, which was neither the next line nor
\* line 0
C17_Witness ==
    /\ TwoSteps
    /\ LastIp # PreviousIp + 1
    /\ LastIp # 0
    /\ LET ins == instructions[PreviousIp + 1]
       IN  /\ ins.k = "Read"
           /\ ins.x = Counter

(***************************************************************************)
(* The end of a run.                                                       *)
(***************************************************************************)
\* C18: when the instruction executed was `end`, or the counter it left is
\* past the last instruction, the counter is 0 afterwards and run returns;
\* otherwise, when the instruction was `pause`, run returns with the counter
\* at the line after the pause; otherwise run goes on until it has max_steps
\* lines.
C18_EndWrapsPauseDoesNot ==
    [][Executes =>
          LET ip == CounterOf(emu)
              ins == instructions[ip + 1]
              next == IF WritesCounter(ins, ip) THEN WrittenCounter(ins, ip) ELSE ip + 1
          IN  IF ins.k = "End" \/ next >= Len(instructions)
              THEN CounterOf(emu') = 0 /\ phase' = "idle" /\ ended'
              ELSE IF ins.k = "Pause"
              THEN CounterOf(emu') = ip + 1 /\ phase' = "idle" /\ ~ended'
              ELSE /\ CounterOf(emu') = next
                   /\ ~ended'
                   /\ phase' = "idle" <=> Len(run_output') >= max_steps]_vars

\* A run of many steps has returned after a pause in the middle of the
\* program, with the counter at the line after the pause
C18_Witness ==
    /\ phase = "idle"
    /\ max_steps = MaxSteps
    /\ run_output # << >>
    /\ Last(run_output).k = "step"
    /\ instructions[LastIp + 1].k = "Pause"
    /\ CounterOf(emu) = LastIp + 1
    /\ LastIp + 1 < Len(instructions)

(***************************************************************************)
(* The length of what run returns.                                         *)
(***************************************************************************)
\* The `Printed to` lines at the end of what run has so far
RECURSIVE PrintedAtTheEnd(_)
PrintedAtTheEnd(output_lines) ==
    IF output_lines = << >> \/ Last(output_lines).k # "printed" THEN 0
    ELSE 1 + PrintedAtTheEnd(Front(output_lines))

\* C19: run(max_steps) executes at most max_steps instructions, and what it
\* returns has at most max_steps lines before the `Printed to` lines of the
\* last instruction it executed.
C19_AtMostMaxStepsBeforeLastPrint ==
    /\ Len(SelectSeq(run_output, LAMBDA l : l.k # "printed")) <= max_steps
    /\ Len(run_output) - PrintedAtTheEnd(run_output) <= max_steps

\* run(1) has returned the line of a printflush and the three lines it
\* printed
C19_Witness ==
    /\ phase = "idle"
    /\ max_steps = 1
    /\ Len(run_output) = 4
    /\ PrintedAtTheEnd(run_output) = 3

\* What run(max_steps) returns has at most max_steps lines.
C19_AtMostMaxStepsLines == Len(run_output) <= max_steps

(***************************************************************************)
(* Reads, writes and null.                                                 *)
(***************************************************************************)
\* The operand has a value while the instruction at ip executes
HasValue(tok) == tok.t = "n" \/ tok = Counter \/ tok \in DOMAIN emu.vars

\* The address is a number within the cell of that name, which is attached
InTheCell(ip, cell_name, address) ==
    /\ HasValue(address)
    /\ emu.cell # None
    /\ emu.cell[1].name = cell_name
    /\ OperandAt(ip, address) < CellSize

\* The variables other than @counter
BesideCounter(m) == [v \in DOMAIN m \ {Counter} |-> m[v]]

\* C20: a read at an address that is null or past the cell, of a cell of
\* another name or with no cell attached, or of a slot that holds null,
\* removes its destination from the variables and changes nothing else; a
\* read of a slot that holds a value assigns it; a write at such an address
\* or cell changes nothing; a set whose source is null removes its
\* destination from the variables; and run goes on to the next instruction.
C20_NullReadsAndWrites ==
    [][Executes =>
          LET ip == CounterOf(emu)
              ins == instructions[ip + 1]
              before == BesideCounter(emu.vars)
              after == BesideCounter(emu'.vars)
              without == [v \in DOMAIN before \ {ins.x} |-> before[v]]
              slot == OperandAt(ip, ins.z)
              full == InTheCell(ip, ins.y, ins.z) /\ slot \in DOMAIN emu.cell[1].data
          IN  /\ (ins.k = "Read" /\ ins.x # Counter) =>
                    /\ emu'.cell = emu.cell
                    /\ IF full
                       THEN after = MapInsert(before, ins.x, emu.cell[1].data[slot])
                       ELSE after = without
                    /\ CounterOf(emu') = (ip + 1) % Len(instructions)
              /\ (ins.k = "Write" /\ ~InTheCell(ip, ins.y, ins.z)) =>
                    /\ emu'.cell = emu.cell
                    /\ after = before
                    /\ CounterOf(emu') = (ip + 1) % Len(instructions)
              /\ (ins.k = "Set" /\ ins.x # Counter /\ ~HasValue(ins.y)) =>
                    /\ emu'.cell = emu.cell
                    /\ after = without
                    /\ CounterOf(emu') = (ip + 1) % Len(instructions)]_vars

\* With a cell attached, x was set to 1, the write to slot 1000 changed
\* nothing and the read of slot 1000 has removed x; the slot 5 written before
\* holds its value
C20_Witness ==
    /\ TwoSteps
    /\ Len(run_output) >= 3
    /\ run_output[Len(run_output) - 2] = [k |-> "step", ip |-> LastIp - 2]
    /\ PreviousIp = LastIp - 1
    /\ emu.cell # None
    /\ instructions[LastIp - 1] = Instruction("Set", "", 0, W("x"), N(1), NoTok)
    /\ instructions[LastIp] = Instruction("Write", "", 0, N(10), W("bank1"), N(1000))
    /\ instructions[LastIp + 1] = Instruction("Read", "", 0, W("x"), W("bank1"), N(1000))
    /\ W("x") \notin DOMAIN emu.vars
    /\ W("y") \in DOMAIN emu.vars
    /\ emu.cell[1].data = MapInsert(EmptyMap, 5, 5)

(***************************************************************************)
(* Jumps on null.                                                          *)
(***************************************************************************)
\* The address the counter holds after it was left at v
Wrapped(v) == IF v >= Len(instructions) THEN 0 ELSE v

\* The step executes a jump with that comparison
JumpsOn(cond) ==
    /\ Executes
    /\ instructions[CounterOf(emu) + 1].k = "Jump"
    /\ instructions[CounterOf(emu) + 1].m = cond

\* The jump being executed is taken, is not taken
JumpTaken == CounterOf(emu') = Wrapped(instructions[CounterOf(emu) + 1].d)

JumpNotTaken == CounterOf(emu') = Wrapped(CounterOf(emu) + 1)

\* Of the operands of the jump being executed, which are null
NullOperands ==
    LET ins == instructions[CounterOf(emu) + 1]
    IN  {i \in 1..2 : ~HasValue(IF i = 1 THEN ins.x ELSE ins.y)}

RECURSIVE IntoWord(_)
IntoWord(v) ==
    IF v < 0 THEN IntoWord(v + WordModulus)
    ELSE IF v >= WordModulus THEN IntoWord(v - WordModulus)
    ELSE v

\* C23: an `op` sets its destination to the sum, the difference or the
\* product of its operands taken modulo the word, or to the remainder of the
\* first by the second, which is 0 when the second is 0; an operand that is
\* null counts as 0; the destination is a number of the word afterwards, no
\* other variable changes and run goes on to the next instruction.
C23_Arithmetic ==
    [][(Executes /\ instructions[CounterOf(emu) + 1].k = "Math"
                 /\ instructions[CounterOf(emu) + 1].x # Counter) =>
          LET ip == CounterOf(emu)
              ins == instructions[ip + 1]
              a == OperandAt(ip, ins.y)
              b == OperandAt(ip, ins.z)
              r == emu'.vars[ins.x]
          IN  /\ ins.x \in DOMAIN emu'.vars
              /\ r \in 0..WordModulus - 1
              /\ ins.m = "add" => r = IntoWord(a + b)
              /\ ins.m = "sub" => r = IntoWord(a - b)
              /\ ins.m = "mod" => r = IF b = 0 THEN 0 ELSE a % b
              /\ ins.m = "mul" => r = (a * b) % WordModulus
              /\ \A v \in DOMAIN emu.vars \ {ins.x, Counter} :
                    v \in DOMAIN emu'.vars /\ emu'.vars[v] = emu.vars[v]
              /\ DOMAIN emu'.vars \subseteq DOMAIN emu.vars \cup {ins.x, Counter}
              /\ CounterOf(emu') = Wrapped(ip + 1)]_vars

\* The program of arithmetic has run to its end: 0 - 1 is the last number of
\* the word, that number plus 1 is 0, its square is 1, and a remainder by 0
\* or by null is 0
C23_Witness ==
    /\ source # << >>
    /\ Tail(source) = MathProgram \/ source = MathProgram
    /\ phase = "idle"
    /\ ended
    /\ emu.vars[W("a")] = 7
    /\ emu.vars[W("b")] = WordModulus - 1
    /\ emu.vars[W("c")] = 0
    /\ emu.vars[W("d")] = WordModulus - 2
    /\ emu.vars[W("e")] = 1
    /\ emu.vars[W("h")] = 4
    /\ emu.vars[W("i")] = 0
    /\ emu.vars[W("j")] = 0
    /\ emu.vars[W("k")] = 1
    /\ emu.vars[W("m")] = 0

(***************************************************************************)
(* Breakpoints.                                                            *)
(***************************************************************************)
\* An iteration of the loop of run takes place
Iterates == phase = "running" /\ run_output' # run_output

\* C24: an iteration of run that is not the first of its call and finds the
\* counter in the breakpoint set pushes the line of the breakpoint and
\* returns, and the variables, the cell, the print buffer and the counter are
\* what they were; the first iteration of a call executes the instruction at
\* the counter whether or not a breakpoint is set there, so what a call
\* returns begins with the line of a step; and no other iteration pushes the
\* line of a breakpoint.
C24_Breakpoints ==
    [][Iterates =>
          LET ip == CounterOf(emu)
              stop == [k |-> "breakpoint", ip |-> ip]
              step == [k |-> "step", ip |-> ip]
          IN  /\ (~first_step /\ ip \in breakpoints) =>
                    /\ run_output' = Append(run_output, stop)
                    /\ phase' = "idle"
                    /\ emu' = emu
              /\ (first_step \/ ip \notin breakpoints) =>
                    /\ Len(run_output') > Len(run_output)
                    /\ run_output'[Len(run_output) + 1] = step
                    /\ \A i \in Len(run_output) + 1..Len(run_output') : run_output'[i] # stop
              /\ first_step => run_output = << >>
              /\ run_output'[1].k = "step"]_vars

\* A call of run began at an address with a breakpoint and executed the
\* instruction there, went round the loop and returned at the same
\* breakpoint
C24_Witness ==
    /\ phase = "idle"
    /\ Len(run_output) >= 3
    /\ run_output[1].k = "step"
    /\ run_output[1].ip \in breakpoints
    /\ Last(run_output) = [k |-> "breakpoint", ip |-> run_output[1].ip]

(***************************************************************************)
(* Rejected sources.                                                       *)
(***************************************************************************)
\* The tokens of the line pass 2 parses next
ParsedLine == clean_line(source[line_no + 1])

\* Pass 2 is about to parse a line that starts with the word
Parses(word) ==
    /\ phase = "parse"
    /\ line_no < Len(source)
    /\ ParsedLine # << >>
    /\ IsKeyword(ParsedLine[1], word)

\* Pass 2 stops at the line: there is no intermediate representation and
\* no output
Rejected ==
    /\ phase' = "error"
    /\ IsSome(error') /\ Unwrap(error').st = "err"
    /\ ir' = NoIr
    /\ output' = << >>

\* What the rejecting error names, after the number and the text of the line
NamedByError ==
    LET named == Unwrap(error').named IN
    SubSeq(named, Len(source[line_no + 1]) + 2, Len(named))

\* The function the parsed line is in, if any
EnclosingFunction == find_enclosing_function(context).v

ReturnedValues == Tail(ParsedLine)

ReturnMismatch ==
    /\ Parses("return")
    /\ context.has_stack
    /\ IsSome(EnclosingFunction)
    /\ Len(ReturnedValues) # Len(context.functions[Unwrap(EnclosingFunction)].returns)

Callee == ParsedLine[2]

CallArrow == parse_arrow(Tail(Tail(ParsedLine))).v

\* A name the call site can pass or bind
UsableAtCallSite(name) ==
    IsStackVarTok(name) =>
        /\ IsSome(EnclosingFunction)
        /\ name \in DOMAIN context.functions[Unwrap(EnclosingFunction)].locals

\* A call with at most one arrow, names the call site can use and no binding
\* twice
CallOfSoundNames ==
    /\ Parses("call")
    /\ context.has_stack
    /\ Len(ParsedLine) >= 2
    /\ Cardinality(ArrowPositions(ParsedLine)) <= 1
    /\ \A j \in 3..Len(ParsedLine) : UsableAtCallSite(ParsedLine[j])
    /\ ~HasDuplicate(CallArrow.returns)

\* A call of a function with another number of arguments or of bindings
\* than the function declares
CallMismatch ==
    /\ Parses("call")
    /\ context.has_stack
    /\ Len(ParsedLine) >= 2
    /\ Cardinality(ArrowPositions(ParsedLine)) <= 1
    /\ Callee \in DOMAIN context.functions
    /\ \/ Len(CallArrow.args) # Len(context.functions[Callee].args)
       \/ Len(CallArrow.returns) # Len(context.functions[Callee].returns)

CallOfUndefined ==
    /\ Parses("call")
    /\ context.has_stack
    /\ Len(ParsedLine) >= 2
    /\ Cardinality(ArrowPositions(ParsedLine)) <= 1
    /\ Callee \notin DOMAIN context.functions

\* The counts the error of a mismatched call names: those of the arguments
\* if they differ, of the bindings otherwise
MismatchedCounts ==
    LET function == context.functions[Callee] IN
    IF Len(CallArrow.args) # Len(function.args)
    THEN << N(Len(function.args)), N(Len(CallArrow.args)) >>
    ELSE << N(Len(function.returns)), N(Len(CallArrow.returns)) >>

NoStackConfigured ==
    \A i \in DOMAIN source :
        clean_line(source[i]) # << >> /\ IsKeyword(clean_line(source[i])[1], "stack_config")
            => clean_line(source[i]) = << W("stack_config"), W("size"), N(0) >>

\* The line is one of the constructs that need a stack
IsStackConstruct(line) ==
    line # << >> /\ \E word \in StackWords : IsKeyword(line[1], word)

\* The names of the stack pointer, of the slots of the internal stack and
\* of the way back from its tables
StackNames == {StackSz, Resume} \cup {StackSlot(j) : j \in 0..StackSize}

TokensOf(lines) == UNION { {lines[i][j] : j \in DOMAIN lines[i]} : i \in DOMAIN lines }

\* C26: without a configured stack, pass 2 rejects every line that starts
\* with push, pop, peek, poke, callproc, ret, fn, call, return or let; a
\* source that parse accepts without a stack has no such line, and what is
\* generated for it names the stack pointer or the tables only where the
\* source does.
C26_NoStackNoStackConstruct ==
    [][/\ (\E word \in StackWords : Parses(word)) /\ NoStackConfigured => Rejected
       /\ phase' \in {"generate", "compiled", "idle", "running"} /\ NoStackConfigured =>
            /\ \A i \in DOMAIN source : ~IsStackConstruct(clean_line(source[i]))
            /\ TokensOf(output') \cap StackNames \subseteq TokensOf(source)]_vars

\* A callproc under a stack_config of size 0 was rejected for the stack
C26_Witness ==
    /\ NoStackConfigured
    /\ source[1] = << W("stack_config"), W("size"), N(0) >>
    /\ phase = "error"
    /\ line_no < Len(source)
    /\ source[line_no + 1] = << W("callproc"), W("l") >>
    /\ Unwrap(error).msg = "This function requires that a stack be configured"
    /\ output = << >>

\* The kind of the op that opened the innermost open scope of pass 2
TopOpener == context.ops[Last(context.scope_stack) + 1].k

\* Pass 2 parses a line that closes a scope: `}` alone, `} else {` or
\* `} while` and a condition
ClosesAlone == Parses("}") /\ Len(ParsedLine) = 1

ClosesForElse == Parses("}") /\ ParsedLine = CloseElse

ClosesForWhile == Parses("}") /\ Len(ParsedLine) >= 2 /\ IsKeyword(ParsedLine[2], "while")

\* Pass 1 is about to read a line that closes a scope and opens none
PreparsesClosing ==
    /\ phase = "preparse"
    /\ line_no < Len(source)
    /\ ParsedLine # << >>
    /\ IsKeyword(ParsedLine[1], "}")
    /\ ~IsKeyword(Last(ParsedLine), "{")

\* C27: parse rejects a closing line when no scope is open, in pass 1 and
\* in pass 2, a `} else {` whose innermost open scope was not opened by an
\* if and a `} while` whose innermost open scope was not opened by a do;
\* a closing line that is accepted closes an open scope, so that neither
\* stack of scopes is popped when it is empty.
C27_ScopeMismatchRejected ==
    [][/\ Parses("}") /\ context.scope_stack = << >> => Rejected
       /\ ClosesForElse /\ context.scope_stack # << >> /\ TopOpener # "If" => Rejected
       /\ ClosesForWhile /\ context.scope_stack # << >> /\ TopOpener # "DoWhile"
            => Rejected
       /\ Parses("}") /\ phase' = "parse" =>
            /\ context.scope_stack # << >>
            /\ Len(context'.scope_stack) =
                  Len(context.scope_stack) - (IF ClosesForElse THEN 0 ELSE 1)
       /\ PreparsesClosing /\ preparse_fn_stack = << >> => phase' = "error"
       /\ PreparsesClosing /\ phase' = "preparse" =>
            /\ preparse_fn_stack # << >>
            /\ preparse_fn_stack' = Front(preparse_fn_stack)]_vars

\* A `} else {` that closes a while was rejected
C27_Witness ==
    /\ phase = "error"
    /\ line_no < Len(source)
    /\ output = << >>
    /\ LET before == source[line_no]
           line == source[line_no + 1]
           msg == Unwrap(error).msg
       IN  /\ line_no >= 2
           /\ source[line_no - 1] = While("lessThan", W("a"), N(2))
           /\ before = Inc(W("a"))
           /\ line = CloseElse
           /\ msg = "else does not match if statement structurally"

\* The kind of the op that opened the scope at a depth of the scope stack
OpenerAt(d) == context.ops[context.scope_stack[d] + 1].k

\* The depths of the open loops that are in the same function as the parsed
\* line: no function was opened after them
LoopsAround ==
    { d \in DOMAIN context.scope_stack :
         /\ OpenerAt(d) \in {"While", "DoWhile", "InfiniteLoop"}
         /\ \A e \in DOMAIN context.scope_stack : e > d => OpenerAt(e) # "Function" }

Leaves == Parses("break") \/ Parses("continue")

\* The op pass 2 has pushed last
PushedOp == Last(context'.ops)

\* C28: pass 2 rejects a break and a continue that is in no loop of its own
\* function, and the op of one it accepts refers to the innermost loop
\* open around it.
C28_BreakContinueInLoop ==
    [][Leaves /\ Len(ParsedLine) = 1 =>
          IF LoopsAround = {} THEN Rejected
          ELSE /\ phase' = "parse"
               /\ PushedOp.k = (IF Parses("break") THEN "Break" ELSE "Continue")
               /\ \E d \in LoopsAround :
                     /\ \A e \in LoopsAround : e <= d
                     /\ PushedOp.index = context.scope_stack[d]]_vars

\* A break in a function that is in a loop was rejected
C28_Witness ==
    /\ phase = "error"
    /\ source = << source[1] >> \o LeaveInFunctionProgram("break")
    /\ line_no < Len(source)
    /\ source[line_no + 1] = Kw("break")
    /\ Unwrap(error).msg = "break not valid outside loop"
    /\ Len(context.scope_stack) = 3
    /\ output = << >>

\* The parsed line is in no function
OutsideFunctions == IsNone(EnclosingFunction)

HasStackVar(tok) == \E j \in DOMAIN tok : IsStackVarTok(tok[j])

\* The words of the condition of the parsed line, for an if, a while, the
\* end of a do-while and a jump
ConditionOfLine ==
    CASE Parses("if") \/ Parses("while") -> SubSeq(ParsedLine, 2, Len(ParsedLine) - 1)
      [] ClosesForWhile \/ Parses("jump") -> SubSeq(ParsedLine, 3, Len(ParsedLine))
      [] OTHER -> << >>

\* The condition has operands that parse_condition reads
ReadsOperands ==
    /\ Len(ConditionOfLine) = 3
    /\ ~IsKeyword(ConditionOfLine[1], "always")
    /\ ~IsKeyword(ConditionOfLine[1], "never")

\* The terms of a set, an op and a call
TermsOfLine ==
    CASE Parses("set") /\ Len(ParsedLine) = 3 -> Tail(ParsedLine)
      [] Parses("op") /\ Len(ParsedLine) = 5 -> SubSeq(ParsedLine, 3, 5)
      [] Parses("call") /\ Len(ParsedLine) >= 2 -> SubSeq(ParsedLine, 3, Len(ParsedLine))
      [] OTHER -> << >>

\* Pass 1 is about to read a let when no function is open
PreparsesLetOutside ==
    /\ phase = "preparse"
    /\ line_no < Len(source)
    /\ ParsedLine # << >>
    /\ IsKeyword(ParsedLine[1], "let")
    /\ \A j \in DOMAIN preparse_fn_stack : IsNone(preparse_fn_stack[j])

LineOf(j) == clean_line(source[j])

StartsWith(j, word) == LineOf(j) # << >> /\ IsKeyword(LineOf(j)[1], word)

\* The line opens a scope for pass 1, or closes one
OpensScope(j) == LineOf(j) # << >> /\ IsKeyword(Last(LineOf(j)), "{") /\ ~StartsWith(j, "}")

ClosesScope(j) == StartsWith(j, "}") /\ ~IsKeyword(Last(LineOf(j)), "{")

\* The scope that line j opens is open at line i
OpenAt(j, i) ==
    \A k \in j + 1..i - 1 :
        Cardinality({c \in j + 1..k : ClosesScope(c)})
            <= Cardinality({o \in j + 1..k : OpensScope(o)})

\* The line of the innermost function around line i, 0 if there is none
Owner(i) ==
    LET around == {j \in 1..i - 1 : StartsWith(j, "fn") /\ OpenAt(j, i)} IN
    IF around = {} THEN 0 ELSE CHOOSE j \in around : \A other \in around : other <= j

\* The arguments of the function that line j declares
ArgsOf(j) ==
    LET words == SubSeq(LineOf(j), 3, Len(LineOf(j)) - 1)
        arrows == {a \in DOMAIN words : IsKeyword(words[a], "->")}
    IN  IF arrows = {} THEN words
        ELSE SubSeq(words, 1, (CHOOSE a \in arrows : TRUE) - 1)

\* The lines up to a line that are a let of the function of line j
LetsOf(j, upto) == {i \in j + 1..upto : StartsWith(i, "let") /\ Owner(i) = j}

\* The frame the function of line j has when pass 1 has read the lines up
\* to a line: its arguments, then its lets in the order of their lines
FrameOf(j, upto) ==
    [name \in {ArgsOf(j)[a] : a \in DOMAIN ArgsOf(j)}
              \cup {LineOf(i)[2] : i \in LetsOf(j, upto)} |->
        IF \E a \in DOMAIN ArgsOf(j) : ArgsOf(j)[a] = name
        THEN (CHOOSE a \in DOMAIN ArgsOf(j) : ArgsOf(j)[a] = name) - 1
        ELSE Len(ArgsOf(j))
             + Cardinality({i \in LetsOf(j, upto) :
                               \E l \in LetsOf(j, upto) : LineOf(l)[2] = name /\ i < l})]

\* The lines pass 1 has read
LinesRead == IF phase = "preparse" THEN line_no ELSE Len(source)

\* The locals of every function are its frame, and the frame has an index
\* for every local
LocalsAreFrames ==
    \A j \in 1..LinesRead :
        StartsWith(j, "fn") =>
            LET locals == context.functions[LineOf(j)[2]].locals IN
            /\ locals = FrameOf(j, LinesRead)
            /\ {locals[name] : name \in DOMAIN locals} = 0..Cardinality(DOMAIN locals) - 1

\* The locals of every function of the parser
LocalsOfNow == [f \in DOMAIN context.functions |-> context.functions[f].locals]

\* Pass 1 is about to read a let of a name that the function around it has
\* as an argument or from a let before
PreparsesDuplicate ==
    /\ phase = "preparse"
    /\ line_no < Len(source)
    /\ StartsWith(line_no + 1, "let")
    /\ Owner(line_no + 1) # 0
    /\ LineOf(line_no + 1)[2] \in DOMAIN FrameOf(Owner(line_no + 1), line_no)

\* C30: while pass 1 reads the source and after it, the locals of every
\* function are its arguments followed by the names of the lets in its own
\* body, in the order of their lines, with the frame indices 0, 1, 2, ...;
\* pass 2 leaves them as they are and hands them to the intermediate
\* representation; a let of a name the function has already is rejected
\* by pass 1.
C30_LocalsAreArgsThenLets ==
    [][/\ phase = "preparse" /\ phase' # "error" => LocalsAreFrames'
       /\ phase # "preparse" => LocalsOfNow' = LocalsOfNow
       /\ phase = "parse" /\ phase' = "generate" =>
            [f \in DOMAIN ir'.functions |-> ir'.functions[f].locals] = LocalsOfNow
       /\ PreparsesDuplicate => phase' = "error" /\ output' = << >>]_vars

\* Pass 1 is over for a function within a function that both declare *b
C30_Witness ==
    /\ phase = "parse"
    /\ DOMAIN context.functions = {W("outer"), W("inner")}
    /\ context.functions[W("outer")].locals =
          (SV("a") :> 0) @@ (SV("b") :> 1) @@ (SV("e") :> 2) @@ (SV("f") :> 3)
    /\ context.functions[W("inner")].locals =
          (SV("c") :> 0) @@ (SV("d") :> 1) @@ (SV("b") :> 2)

(***************************************************************************)
(* Addresses.                                                              *)
(***************************************************************************)
\* The compile has succeeded: generate has returned the output
Succeeded == phase \in {"compiled", "idle", "running"}

\* The addresses the intermediate representation holds: of the labels and
\* of the functions
LabelAddresses == {ir.labels[l] : l \in DOMAIN ir.labels}

FunctionAddresses ==
    {Unwrap(ir.functions[f].address) :
        f \in {g \in DOMAIN ir.functions : IsSome(ir.functions[g].address)}}

\* Tables of the internal stack follow the lines of the program
HasTables == ir.backend = "Internal" /\ ir.stack_config.size > 0

\* C31: after a successful compile every function has its address, and
\* every address of a label and of a function is a line of the output or
\* the end of the output: it is at most the number of lines, and less when
\* the tables of the internal stack follow the program.
C31_AddressesWithinOutput ==
    Succeeded =>
        /\ \A f \in DOMAIN ir.functions : IsSome(ir.functions[f].address)
        /\ \A a \in LabelAddresses \cup FunctionAddresses :
              a <= Len(output) /\ (HasTables => a < Len(output))

\* A label on the last line of a source without a stack has the address
\* after the last line of the output
C31_Witness ==
    /\ phase = "compiled"
    /\ source = TrailingLabelProgram
    /\ W("done") \in DOMAIN ir.labels
    /\ ir.labels[W("done")] = Len(output)
    /\ Len(output) = 3

\* C31 as stated: after a successful compile every address of a label and
\* of a function is less than the number of lines of the output
C31_AddressesAreLines ==
    Succeeded =>
        /\ \A f \in DOMAIN ir.functions : IsSome(ir.functions[f].address)
        /\ \A a \in LabelAddresses \cup FunctionAddresses : a < Len(output)

(***************************************************************************)
(* Forward references.                                                     *)
(***************************************************************************)
\* The op has the address it waits for
Resolved(op) ==
    CASE op.k \in {"If", "Else", "InfiniteLoop"} -> IsSome(op.end)
      [] op.k \in {"While", "DoWhile"} -> IsSome(op.forward)
      [] OTHER -> TRUE

\* The ops of the parser that open a scope and wait for an address
Waiting(c) == {i \in DOMAIN c.ops : c.ops[i].k \in ScopeKinds /\ ~Resolved(c.ops[i])}

\* The op that opened the innermost open scope, as an index of ops
TopIndex == Last(context.scope_stack) + 1

\* Pass 2 accepts a line that closes a scope
ClosesScopeNow == Parses("}") /\ phase' = "parse"

\* The address the line that closes an if gives it: the address after the
\* jump of the else, if the line opens an else
EndOfIf == context.instruction_count + (IF ClosesForElse THEN ElseOp_code_size ELSE 0)

\* C32: an if, else, while, do-while and loop op gets its address when the
\* line that closes its scope is parsed and at no other step, and an op
\* that has its address is never changed again; a function gets its address
\* when pass 2 parses its fn line and the line that closes it changes no
\* function; no assertion of a second resolution fails.
C32_ResolvedOnceAtClose ==
    [][/\ phase = "parse" /\ phase' = "parse" =>
            /\ \A i \in DOMAIN context.ops :
                  i \notin Waiting(context) => context'.ops[i] = context.ops[i]
            /\ \A i \in Waiting(context) :
                  Resolved(context'.ops[i]) =>
                      Parses("}") /\ context.scope_stack # << >> /\ TopIndex = i
       /\ ClosesScopeNow /\ TopOpener # "Function" =>
            /\ TopIndex \in Waiting(context)
            /\ Resolved(context'.ops[TopIndex])
            /\ TopOpener = "If" => context'.ops[TopIndex].end = Some(EndOfIf)
       /\ ClosesScopeNow /\ TopOpener = "Function" =>
            /\ context'.functions = context.functions
            /\ context'.ops = context.ops
       /\ Parses("fn") /\ phase' = "parse" =>
            /\ IsNone(context.functions[ParsedLine[2]].address)
            /\ context'.functions[ParsedLine[2]].address = Some(context.instruction_count)
       /\ IsSome(error') => Unwrap(error').msg # "assert set.is_none()"]_vars

\* An if was closed by an else and has the address after the jump of the
\* else; the else waits
C32_Witness ==
    /\ phase = "parse"
    /\ context.scope_stack # << >>
    /\ TopOpener = "Else"
    /\ TopIndex \in Waiting(context)
    /\ \E i \in DOMAIN context.ops :
          /\ context.ops[i].k = "If"
          /\ context.ops[i].end = Some(context.instruction_count)
    /\ \E f \in DOMAIN context.functions : IsSome(context.functions[f].address)

\* C32 as stated for functions: the line that closes a function gives it
\* its address
C32_FunctionResolvedAtClose ==
    [][ClosesScopeNow /\ TopOpener = "Function" =>
          \E f \in DOMAIN context.functions :
              /\ IsNone(context.functions[f].address)
              /\ IsSome(context'.functions[f].address)]_vars

(***************************************************************************)
(* The call sequence.                                                      *)
(***************************************************************************)
\* The call ops whose lines have been emitted
EmittedCalls == {i \in DOMAIN op_lines : ir.ops[i].k = "Call"}

\* The addresses of the lines of call i that jump to its callee
JumpsToCallee(i) ==
    LET f == ir.functions[ir.ops[i].target_function] IN
    {a \in op_lines[i].start .. (op_lines[i].start + op_lines[i].len - 1) :
        output[a + 1] = JumpLine(Unwrap(f.address), ConditionAlways)}

\* The lines call i emits to bind its return values, as generate counts them
BindingLines(i) ==
    LET call == ir.ops[i]
        count(j) == IF ~IsStackVarTok(call.returns[j]) THEN 1
                    ELSE IF ir.backend = "Internal" THEN 5 ELSE 2
        sum[j \in 0..Len(call.returns)] == IF j = 0 THEN 0 ELSE sum[j - 1] + count(j)
    IN  sum[Len(call.returns)]

\* C33: the first line of every emitted call adds before_call_size - 1 to
\* @counter, which is then the address of the next line; the one jump to the
\* callee is the line before_call_size - 1 lines after the first, so the sum
\* is the address of the line after the jump; the call emits before_call_size
\* lines and the lines of its return bindings; and on entry of the callee the
\* slot at the caller's MF_stack_sz holds the address after the jump.
C33_ReturnAddressFollowsJump ==
    /\ \A i \in EmittedCalls :
          LET call == ir.ops[i]
              start == op_lines[i].start
          IN  /\ output[start + 1]
                    = OpLine("add", Accumulator, Counter, N(call.before_call_size - 1))
              /\ JumpsToCallee(i) = {start + call.before_call_size - 1}
              /\ op_lines[i].len = call.total_size
              /\ call.total_size = call.before_call_size + BindingLines(i)
    /\ IsSome(last_entry) =>
          LET en == Unwrap(last_entry) IN
          \A a \in JumpsToCallee(en.site) :
              SlotGet(en.stack, en.caller_sp) = Some(a + 1)

\* A callee with let variables of its own was entered by a call that passes a
\* stack variable, a literal and a global and binds a stack variable and a
\* global
C33_Witness ==
    /\ IsSome(last_entry)
    /\ LET call == ir.ops[Unwrap(last_entry).site]
           f == ir.functions[call.target_function]
       IN  /\ \E j \in DOMAIN call.args : IsStackVarTok(call.args[j])
           /\ \E j \in DOMAIN call.args : call.args[j].t = "n"
           /\ \E j \in DOMAIN call.args : call.args[j].t = "w"
           /\ \E j \in DOMAIN call.returns : IsStackVarTok(call.returns[j])
           /\ \E j \in DOMAIN call.returns : ~IsStackVarTok(call.returns[j])
           /\ MapLen(f.locals) > Len(f.args)
           /\ JumpsToCallee(Unwrap(last_entry).site) # {}
    /\ \E i \in EmittedCalls :
          MapLen(ir.functions[ir.ops[i].target_function].locals) = Len(ir.ops[i].args)

(***************************************************************************)
(* Arguments.                                                              *)
(***************************************************************************)
\* The address of the first line call i emits for its argument j (from 1)
ArgStart(i, j) ==
    LET call == ir.ops[i]
        sum[l \in 0..Len(call.args)] ==
            IF l = 0 THEN 0 ELSE sum[l - 1] + CallOp_arg_size(call.args[l], ir.backend)
    IN  op_lines[i].start + (IF ir.backend = "Internal" THEN 4 ELSE 3) + sum[j - 1]

\* The line of call i that computes the slot of its argument j (from 1), a
\* stack variable
ArgSlotLine(i, j) ==
    output[ArgStart(i, j) + (IF ir.backend = "Internal" THEN 2 ELSE 1)]

\* The depth of a stack variable in the frame of function name
DepthIn(name, var) == MapLen(ir.functions[name].locals) - ir.functions[name].locals[var]

\* C34: on entry of a function every parameter, read at its depth in the
\* callee's frame, holds the value the caller's argument of the same position
\* had when the call began; and the line a call emits to find a stack
\* variable passed as argument j (from 0) subtracts from MF_stack_sz the
\* variable's depth in the caller's frame plus j + 1.
C34_ParametersHoldArguments ==
    /\ IsSome(last_entry) =>
          LET en == Unwrap(last_entry)
              callee == ir.ops[en.site].target_function
              f == ir.functions[callee]
          IN  \A j \in 1..Len(f.args) :
                  SlotGet(en.stack, en.sp - DepthIn(callee, f.args[j])) = en.args[j]
    /\ \A i \in EmittedCalls :
          \A j \in DOMAIN ir.ops[i].args :
              LET arg == ir.ops[i].args[j] IN
              IsStackVarTok(arg) =>
                  ArgSlotLine(i, j)
                     = OpLine("sub", Tmp, StackSz,
                              N(DepthIn(Unwrap(ir.ops[i].call_site_function), arg) + j))

\* A function was entered with a stack variable of its caller as its second
\* or a later argument, the caller having more than one stack variable, and
\* the argument had a value
C34_Witness ==
    /\ IsSome(last_entry)
    /\ LET en == Unwrap(last_entry)
           call == ir.ops[en.site]
       IN  \E j \in DOMAIN call.args :
              /\ j >= 2
              /\ IsStackVarTok(call.args[j])
              /\ IsSome(en.args[j])
              /\ MapLen(ir.functions[Unwrap(call.call_site_function)].locals) >= 2

(***************************************************************************)
(* Operands on the stack.                                                  *)
(***************************************************************************)
\* The two operands an op reads when it executes
Operands(op) ==
    CASE op.k = "Math" -> << op.arg1, op.arg2 >>
      [] op.k \in {"If", "Jump", "LoopEnd"} -> << op.condition.arg1, op.condition.arg2 >>
      [] OTHER -> << >>

\* Op i reads a stack variable into the global
ReadsInto(i, global) ==
    /\ i \in DOMAIN ir.ops
    /\ ir.ops[i].k = "GetStack"
    /\ ir.ops[i].global = global

\* The slot the running function keeps the stack variable of GetStack op i
\* in, when e is the state of the processor
SlotRead(i, e) ==
    SlotGet(StackOf(e), Sp(e) - DepthIn(ir.ops[i].function, ir.ops[i].stack))

\* C35: a GetStack op into MF_stack_tmp is followed by a GetStack op of
\* another stack variable into MF_acc and by the op that reads MF_stack_tmp
\* and MF_acc; an op that reads both follows such a pair, and when it begins
\* MF_stack_tmp holds the first stack variable and MF_acc the second; an op
\* that reads MF_acc twice follows one GetStack op into MF_acc that no
\* GetStack op into MF_stack_tmp precedes, and when it begins MF_acc holds
\* the stack variable.
C35_StackOperandsRead ==
    /\ \A i \in DOMAIN ir.ops :
          /\ ReadsInto(i, StackTmp) =>
                /\ ReadsInto(i + 1, Accumulator)
                /\ ir.ops[i + 1].stack # ir.ops[i].stack
                /\ ir.ops[i + 1].function = ir.ops[i].function
                /\ i + 2 \in DOMAIN ir.ops
                /\ Operands(ir.ops[i + 2]) = << StackTmp, Accumulator >>
          /\ Operands(ir.ops[i]) = << StackTmp, Accumulator >> =>
                ReadsInto(i - 2, StackTmp) /\ ReadsInto(i - 1, Accumulator)
          /\ Operands(ir.ops[i]) = << Accumulator, Accumulator >> =>
                ReadsInto(i - 1, Accumulator) /\ ~ReadsInto(i - 2, StackTmp)
    /\ IsSome(entry) =>
          LET i == Unwrap(entry).op
              e == Unwrap(entry).e
          IN  /\ Operands(ir.ops[i]) = << StackTmp, Accumulator >> =>
                    /\ resolve(e.vars, StackTmp) = SlotRead(i - 2, e)
                    /\ resolve(e.vars, Accumulator) = SlotRead(i - 1, e)
              /\ Operands(ir.ops[i]) = << Accumulator, Accumulator >> =>
                    resolve(e.vars, Accumulator) = SlotRead(i - 1, e)

\* An op begins that reads two stack variables of different values, in a
\* program that also reads one stack variable twice in an op and in an if
C35_Witness ==
    /\ IsSome(entry)
    /\ Operands(ir.ops[Unwrap(entry).op]) = << StackTmp, Accumulator >>
    /\ IsSome(resolve(Unwrap(entry).e.vars, StackTmp))
    /\ IsSome(resolve(Unwrap(entry).e.vars, Accumulator))
    /\ resolve(Unwrap(entry).e.vars, StackTmp) # resolve(Unwrap(entry).e.vars, Accumulator)
    /\ \E i \in DOMAIN ir.ops :
          ir.ops[i].k = "Math" /\ Operands(ir.ops[i]) = << Accumulator, Accumulator >>
    /\ \E i \in DOMAIN ir.ops :
          ir.ops[i].k = "If" /\ Operands(ir.ops[i]) = << Accumulator, Accumulator >>

(***************************************************************************)
(* Scopes left open.                                                       *)
(***************************************************************************)
\* The ops that opened the scopes open now, as indices of ops
OpenScopes == {context.scope_stack[d] + 1 : d \in DOMAIN context.scope_stack}

\* Parse has read every line and stopped at none
ParseSucceeded == phase \in {"generate", "compiled", "idle", "running"}

ForwardReference == "Internal error: Forward reference"

UndeclaredTarget(op) == op.k \in {"Jump", "CallProc"} /\ op.target \notin DOMAIN ir.labels

\* Generate stopped at an op whose label is declared nowhere
StoppedAtUndeclared ==
    /\ phase = "error"
    /\ ir # NoIr
    /\ op_index < Len(ir.ops)
    /\ UndeclaredTarget(ir.ops[op_index + 1])

\* C37 as stated: generate stops at a jump and a callproc of a label that
\* is declared nowhere with an error result, not with a panic, and no
\* program with such an op compiles.
C37_UndeclaredLabelIsAnError ==
    /\ StoppedAtUndeclared => Unwrap(error).st = "err"
    /\ Succeeded => \A i \in DOMAIN ir.ops : ~UndeclaredTarget(ir.ops[i])

\* Generate panicked at a jump to a label that is declared nowhere, after a
\* parse that accepted every line
C37_Witness ==
    /\ StoppedAtUndeclared
    /\ line_no = Len(source)
    /\ ir.ops[op_index + 1].k = "Jump"
    /\ Unwrap(error).st = "panic"
    /\ Unwrap(error).msg = "HashMap index: key not found"

\* What does hold: generate stops at every such op, with a panic of the
\* index of the label table, and no program with such an op compiles
C37_UndeclaredLabelPanics ==
    /\ StoppedAtUndeclared =>
          /\ Unwrap(error).st = "panic"
          /\ line_no = Len(source)
    /\ Succeeded => \A i \in DOMAIN ir.ops : ~UndeclaredTarget(ir.ops[i])

(***************************************************************************)
(* The instruction pointer.                                                *)
(***************************************************************************)
\* C38: when a step starts the program has instructions and the instruction
\* pointer, @counter or 0 when the variable map has no @counter, is less
\* than their number; between the calls of run it is less than their number
\* unless the program has no instruction, and then no step starts.
C38_FetchWithinProgram ==
    /\ phase = "running" =>
          instructions # << >> /\ CounterOf(emu) < Len(instructions)
    /\ phase = "idle" /\ instructions # << >> => CounterOf(emu) < Len(instructions)
    /\ instructions = << >> => hits = EmptyMap

\* A step starts after the program has written null to @counter, and the
\* instruction pointer is 0
C38_Witness ==
    /\ phase = "running"
    /\ Counter \notin DOMAIN emu.vars
    /\ Len(instructions) = 3
    /\ instructions[2].k = "Set"
    /\ instructions[2].x = Counter
    /\ instructions[2].y = W("nothing")
    /\ 1 \in DOMAIN hits

\* C38 as stated: between the calls of run and when a step starts the
\* instruction pointer is less than the number of instructions
C38_PointerBelowLength ==
    phase \in {"idle", "running"} => CounterOf(emu) < Len(instructions)

(***************************************************************************)
(* The budget of run.                                                      *)
(***************************************************************************)
\* The instructions the call of run has executed
Executed(lines) == Len(SelectSeq(lines, LAMBDA l : l.k = "step"))

\* The step is a call of run
CallsRun == phase = "idle" /\ limit' = limit - 1

\* The step is an iteration of the loop of run
IteratesOnce == phase = "running" /\ phase' \in {"idle", "running"}

\* C39: a call of run executes at most max_steps instructions: an iteration
\* starts only with fewer than max_steps lines returned so far, executes at
\* most one instruction and returns at least one more line, so the call
\* returns after at most max_steps iterations, whatever the program; and
\* run(0) executes no instruction and leaves the processor as it was.
C39_RunWithinBudget ==
    [][/\ IteratesOnce =>
            /\ Len(run_output) < max_steps
            /\ Executed(run_output) < max_steps
            /\ Executed(run_output') <= Executed(run_output) + 1
            /\ Len(run_output') > Len(run_output)
            /\ max_steps' = max_steps
       /\ CallsRun => Executed(run_output') = 0
       /\ CallsRun /\ max_steps = 0 =>
            /\ phase' = "idle"
            /\ run_output' = << >>
            /\ emu' = emu
            /\ instructions' = instructions
            /\ breakpoints' = breakpoints
            /\ hits' = hits
       /\ max_steps' = max_steps => Executed(run_output') <= max_steps]_vars

\* run(0) has returned nothing, in the middle of a program that never ends
\* and that earlier calls of run have taken around its loop
C39_Witness ==
    /\ phase = "idle"
    /\ max_steps = 0
    /\ run_output = << >>
    /\ limit < BudgetRuns - 1
    /\ CounterOf(emu) > 0
    /\ 0 \in DOMAIN hits /\ hits[0] >= 2
    /\ ~ended

(***************************************************************************)
(* Blank lines and comments.                                               *)
(***************************************************************************)
\* The compilation of the text with its blank lines and comments
WithComments == earlier[1]

\* The text was compiled with its blank lines and comments and then without
\* them, and the second compilation is over
ComparedWithout == earlier # << >> /\ phase \in {"error", "compiled"}

\* The lines of the text that are one token starting with `//` and ending
\* with `:`
LabelComments(text) ==
    {j \in DOMAIN text : Len(clean_line(text[j])) = 1
                         /\ clean_line(text[j])[1].t = ":"
                         /\ starts_with_slashes(clean_line(text[j])[1])}

\* Two of them are the same token
LabelCommentTwice(text) ==
    \E i, j \in LabelComments(text) : i # j /\ text[i] = text[j]

\* The two compilations end alike: both fail or both give the same output
SameOutcome ==
    /\ (phase = "compiled") = (WithComments.phase = "compiled")
    /\ phase = "compiled" => output = WithComments.output

=============================================================================
